---- MODULE Spec2Model ----
(***************************************************************************)
(* Extraction -> normalization -> scope -> redaction -> export pipeline of *)
(* the Universal AI Exporter (ExportInterface and the extractors).         *)
(*                                                                         *)
(* Text is a sequence of lexical units.  A unit is one character-sized     *)
(* piece of text (" " is white space, every other unit is non-white) or    *)
(* one atomic lexeme the redaction expressions act on ("EMAIL" is an       *)
(* e-mail address, "PHONE" a phone number, "SKTOKEN" an sk-... token,      *)
(* "token=" a credential key with its separator, "FILE.pdf" a file name).  *)
(* Lengths, prefixes and slices count units.                               *)
(***************************************************************************)
EXTENDS Integers, Sequences, FiniteSets, TLC

\* ------------------------------------------------------------------------
\* Text helpers (JavaScript String methods)
\* ------------------------------------------------------------------------
Ws == " "

Min(a, b) == IF a < b THEN a ELSE b

Max(a, b) == IF a > b THEN a ELSE b

RECURSIVE TrimLeft(_)
TrimLeft(s) == IF s # <<>> /\ Head(s) = Ws THEN TrimLeft(Tail(s)) ELSE s

RECURSIVE TrimRight(_)
TrimRight(s) ==
    IF s # <<>> /\ s[Len(s)] = Ws THEN TrimRight(SubSeq(s, 1, Len(s) - 1)) ELSE s

trim(s) == TrimRight(TrimLeft(s))

slice(s, n) == SubSeq(s, 1, Min(n, Len(s)))

Rep(u, n) == [i \in 1..n |-> u]

RECURSIVE Flatten(_)
Flatten(ss) == IF ss = <<>> THEN <<>> ELSE Head(ss) \o Flatten(Tail(ss))

Range(s) == {s[i] : i \in 1..Len(s)}

\* content.split(/\s+/).filter(Boolean).length : maximal runs of non-white units
wordCountFiltered(s) ==
    Cardinality({i \in 1..Len(s) : s[i] # Ws /\ (i = 1 \/ s[i - 1] = Ws)})

\* content.split(/\s+/).length : pieces between white runs, empty edge pieces included
wordCountSplit(s) ==
    1 + Cardinality({i \in 1..Len(s) : s[i] = Ws /\ (i = 1 \/ s[i - 1] # Ws)})

\* ------------------------------------------------------------------------
\* Absent values.  An absent string is the empty text, an absent count is 0,
\* an absent id is <<>>, an absent block type is "".
\* ------------------------------------------------------------------------
Null == [null |-> TRUE]

NoRefs == [links |-> <<>>, attachments |-> <<>>, documents |-> <<>>, citations |-> <<>>]

\* ------------------------------------------------------------------------
\* Reference helpers of ExportInterface
\* ------------------------------------------------------------------------
normalizeReferenceSet(refs) == refs

RECURSIVE dedupeBySignatureFrom(_, _, _, _, _)
dedupeBySignatureFrom(items, signatureFn(_), i, seen, deduped) ==
    IF i > Len(items) THEN deduped
    ELSE LET signature == signatureFn(items[i]) IN
         IF signature = <<>> \/ signature \in seen
         THEN dedupeBySignatureFrom(items, signatureFn, i + 1, seen, deduped)
         ELSE dedupeBySignatureFrom(items, signatureFn, i + 1,
                                    seen \cup {signature}, Append(deduped, items[i]))

dedupeBySignature(items, signatureFn(_)) ==
    dedupeBySignatureFrom(items, signatureFn, 1, {}, <<>>)

linkSignature(item) == item.url \o <<"|">> \o item.title

fileSignature(item) == item.name \o <<"|">> \o item.url \o <<"|">> \o <<item.type>>

citationSignature(item) == item.text \o <<"|">> \o item.url

computeReferenceIndexFromMessages(messages) ==
    LET refsOf(k) == normalizeReferenceSet(messages[k].references)
        index(links, attachments, documents, citations) ==
            [links |-> links, attachments |-> attachments, documents |-> documents,
             citations |-> citations,
             total |-> Len(links) + Len(attachments) + Len(documents) + Len(citations)]
    IN index(dedupeBySignature(
                 Flatten([k \in 1..Len(messages) |-> refsOf(k).links]), linkSignature),
             dedupeBySignature(
                 Flatten([k \in 1..Len(messages) |-> refsOf(k).attachments]), fileSignature),
             dedupeBySignature(
                 Flatten([k \in 1..Len(messages) |-> refsOf(k).documents]), fileSignature),
             dedupeBySignature(
                 Flatten([k \in 1..Len(messages) |-> refsOf(k).citations]), citationSignature))

uploadSignature(item) ==
    <<item.messageId>> \o <<"|">> \o item.name \o <<"|">> \o item.url \o <<"|">> \o <<item.type>>

computeUploadedDocumentsFromMessages(messages) ==
    LET named(message, item) ==
            [messageId |-> message.id,
             author |-> "user",
             name |-> IF trim(item.name) # <<>> THEN trim(item.name)
                      ELSE <<item.url[Len(item.url)]>>,
             type |-> item.type,
             url |-> item.url]
        uploads(message, kept) == [k \in 1..Len(kept) |-> named(message, kept[k])]
        combined(refs) == refs.attachments \o refs.documents
        docsOf(message) ==
            IF message.author # "user" THEN <<>>
            ELSE uploads(message,
                         SelectSeq(combined(normalizeReferenceSet(message.references)),
                                   LAMBDA item : trim(item.name) # <<>> \/ item.url # <<>>))
    IN dedupeBySignature(Flatten([k \in 1..Len(messages) |-> docsOf(messages[k])]),
                         uploadSignature)

\* blocks.reduce((acc, block) => { acc[block.type || 'thinking']++ }, {})
typeOf(block) == IF block.type = "" THEN "thinking" ELSE block.type

tallyBlockTypes(blocks) ==
    LET types == {typeOf(blocks[i]) : i \in 1..Len(blocks)}
    IN [t \in types |-> Cardinality({i \in 1..Len(blocks) : typeOf(blocks[i]) = t})]

\* ------------------------------------------------------------------------
\* normalizeAndValidateExportData
\* ------------------------------------------------------------------------
SignaturePrefix == 600

\* a signature over the whole content
fullSignature(summary, content) == summary \o <<"|">> \o content

blockSignature(summary, content) == summary \o <<"|">> \o slice(content, SignaturePrefix)

\* an id assigned from the position in the aggregate, whatever id the block has
positionalId(block, index) == <<"thinking", index>>

\* block.id || `thinking_${index}`
blockId(block, index) == IF block.id # <<>> THEN block.id ELSE <<"thinking", index>>

RECURSIVE dedupeAggregate(_, _, _, _)
dedupeAggregate(aggregate, i, seen, dedupedBlocks) ==
    IF i > Len(aggregate) THEN dedupedBlocks
    ELSE LET normalized(block, text, summary) ==
                 [id |-> blockId(block, i - 1),
                  type |-> typeOf(block),
                  content |-> text,
                  summary |-> summary,
                  wordCount |-> IF block.wordCount # 0 THEN block.wordCount
                                ELSE wordCountFiltered(text),
                  characterCount |-> IF block.characterCount # 0
                                     THEN block.characterCount ELSE Len(text),
                  html |-> block.html]
             step(block, content, summary, signature) ==
                 IF (content = <<>> /\ summary = <<>>) \/ signature \in seen
                 THEN [seen |-> seen, dedupedBlocks |-> dedupedBlocks]
                 ELSE [seen |-> seen \cup {signature},
                       dedupedBlocks |->
                           Append(dedupedBlocks,
                                  normalized(block,
                                             IF content # <<>> THEN content ELSE summary,
                                             summary))]
             visit(block, content, summary) ==
                 step(block, content, summary, blockSignature(summary, content))
             next(after) ==
                 dedupeAggregate(aggregate, i + 1, after.seen, after.dedupedBlocks)
         IN next(visit(aggregate[i], trim(aggregate[i].content), trim(aggregate[i].summary)))

\* the flat list deduplicated on its own, message-level blocks not merged in
dedupeTopLevelOnly(doc) == dedupeAggregate(doc.thinkingBlocks, 1, {}, <<>>)

normalizeTopLevelBlocks(doc) ==
    LET aggregate == doc.thinkingBlocks \o
                     Flatten([k \in 1..Len(doc.messages) |-> doc.messages[k].thinkingBlocks])
    IN dedupeAggregate(aggregate, 1, {}, <<>>)

RECURSIVE dedupeMessageBlocks(_, _, _, _)
dedupeMessageBlocks(blocks, i, seenBlocks, deduped) ==
    IF i > Len(blocks) THEN deduped
    ELSE LET step(signature) ==
                 IF signature \in seenBlocks
                 THEN [seenBlocks |-> seenBlocks, deduped |-> deduped]
                 ELSE [seenBlocks |-> seenBlocks \cup {signature},
                       deduped |-> Append(deduped, blocks[i])]
             next(after) == dedupeMessageBlocks(blocks, i + 1, after.seenBlocks, after.deduped)
         IN next(step(blockSignature(trim(blocks[i].summary), trim(blocks[i].content))))

\* the .map() callback of the message pass; Null stands for the dropped turn
normalizeMessage(message, index) ==
    LET normalized(content, dedupedMessageBlocks) ==
            IF content = <<>> /\ dedupedMessageBlocks = <<>> THEN Null
            ELSE [message EXCEPT
                     !.id = IF message.id # <<>> THEN message.id ELSE <<"msg", index>>,
                     !.content = content,
                     !.wordCount = IF message.wordCount # 0 THEN message.wordCount
                                   ELSE wordCountFiltered(content),
                     !.characterCount = IF message.characterCount # 0
                                        THEN message.characterCount ELSE Len(content),
                     !.references = normalizeReferenceSet(message.references),
                     !.thinkingBlocks = dedupedMessageBlocks]
    IN normalized(trim(message.content),
                  dedupeMessageBlocks(
                      SelectSeq(message.thinkingBlocks,
                                LAMBDA block : trim(block.content) # <<>>),
                      1, {}, <<>>))

normalizeMessages(doc) ==
    SelectSeq([k \in 1..Len(doc.messages) |-> normalizeMessage(doc.messages[k], k - 1)],
              LAMBDA m : m # Null)

normalizeMetadata(metadata, messages, thinkingBlocks) ==
    LET assigned(referenceIndex, uploadedDocuments) ==
            [metadata EXCEPT
                !.messageCount = Len(messages),
                !.thinkingBlockCount = Len(thinkingBlocks),
                !.hasThinkingBlocks = Len(thinkingBlocks) > 0,
                !.blockTypeBreakdown = IF DOMAIN @ = {} THEN tallyBlockTypes(thinkingBlocks)
                                       ELSE @,
                !.referenceIndex = referenceIndex,
                !.referenceCount = referenceIndex.total,
                !.linkCount = Len(referenceIndex.links),
                !.attachmentCount = Len(referenceIndex.attachments),
                !.citationCount = Len(referenceIndex.citations),
                !.uploadedDocuments = uploadedDocuments,
                !.uploadedDocumentCount = Len(uploadedDocuments)]
    IN assigned(computeReferenceIndexFromMessages(messages),
                computeUploadedDocumentsFromMessages(messages))

\* The document after the in-place normalization; the handler throws
\* ('No messages found to export') after the assignments when no message is left.
normalizeDocument(doc) ==
    LET assigned(thinkingBlocks, messages) ==
            [doc EXCEPT
                !.thinkingBlocks = thinkingBlocks,
                !.messages = messages,
                !.metadata = normalizeMetadata(@, messages, thinkingBlocks)]
    IN assigned(normalizeTopLevelBlocks(doc), normalizeMessages(doc))

\* the normalization without its final check
normalizeWithoutValidation(data) ==
    IF data = Null THEN [data |-> data, threw |-> TRUE]
    ELSE [data |-> normalizeDocument(data), threw |-> FALSE]

normalizeAndValidateExportData(data) ==
    IF data = Null THEN [data |-> data, threw |-> TRUE]
    ELSE LET checked(normalized) ==
                 [data |-> normalized, threw |-> Len(normalized.messages) = 0]
         IN checked(normalizeDocument(data))

\* ------------------------------------------------------------------------
\* The page: conversation turns in DOM order.  A turn is
\*   [role, text, blocks, refs]; a collapsible trace element is
\*   [summary, body, hint, tag, rich]: the text of its toggle, the text under
\*   it, its data-testid/aria-label attributes, its tag name, and whether its
\*   markup carries links to three or more domains.
\* ------------------------------------------------------------------------
elText(el) ==
    IF el.summary # <<>> /\ el.body # <<>> THEN el.summary \o <<Ws>> \o el.body
    ELSE el.summary \o el.body

pageText(pg) ==
    Flatten([k \in 1..Len(pg.turns) |->
                pg.turns[k].text \o
                Flatten([j \in 1..Len(pg.turns[k].blocks) |-> elText(pg.turns[k].blocks[j])])])

allElements(pg) ==
    Flatten([k \in 1..Len(pg.turns) |-> pg.turns[k].blocks]) \o pg.stray

NoBreakdown == <<>>

\* constructor of UniversalExtractor: the empty export document
initialMetadata(pg) ==
    [platform |-> pg.platform,
     title |-> pg.title,
     messageCount |-> 0,
     thinkingBlockCount |-> 0,
     hasThinkingBlocks |-> FALSE,
     totalWordCount |-> 0,
     totalCharacterCount |-> 0,
     userMessageCount |-> 0,
     assistantMessageCount |-> 0,
     blockTypeBreakdown |-> NoBreakdown,
     referenceIndex |-> NoRefs @@ [total |-> 0],
     referenceCount |-> 0,
     linkCount |-> 0,
     attachmentCount |-> 0,
     citationCount |-> 0,
     uploadedDocuments |-> <<>>,
     uploadedDocumentCount |-> 0,
     conversationSummary |-> [firstMessage |-> <<>>, lastMessage |-> <<>>],
     scope |-> <<>>]

TruncateLength == 100

truncate(text) ==
    IF Len(text) <= TruncateLength THEN text
    ELSE SubSeq(text, 1, TruncateLength) \o <<"...">>

RECURSIVE SumSeq(_)
SumSeq(s) == IF s = <<>> THEN 0 ELSE Head(s) + SumSeq(Tail(s))

\* UniversalExtractor.postProcess
postProcess(doc) ==
    LET messages == doc.messages IN
    [doc EXCEPT !.metadata =
        [doc.metadata EXCEPT
            !.messageCount = Len(messages),
            !.thinkingBlockCount = Len(doc.thinkingBlocks),
            !.hasThinkingBlocks = Len(doc.thinkingBlocks) > 0,
            !.totalWordCount = SumSeq([k \in 1..Len(messages) |-> messages[k].wordCount]),
            !.totalCharacterCount = SumSeq([k \in 1..Len(messages) |-> messages[k].characterCount]),
            !.userMessageCount = Len(SelectSeq(messages, LAMBDA m : m.author = "user")),
            !.assistantMessageCount = Len(SelectSeq(messages, LAMBDA m : m.author = "assistant")),
            !.conversationSummary =
                [firstMessage |-> IF messages = <<>> THEN <<>> ELSE truncate(messages[1].content),
                 lastMessage |-> IF messages = <<>> THEN <<>>
                                 ELSE truncate(messages[Len(messages)].content)]]]

\* ---- UniversalExtractor -------------------------------------------------
\* UniversalExtractor.extractEmbeddedThinking: one block per matched element
\* with non-blank text; no type, no summary, no counts.
extractEmbeddedThinking(turn) ==
    LET embedded(text, j) ==
            [id |-> <<"embedded_thinking", j - 1>>, type |-> "", summary |-> <<>>,
             content |-> text, wordCount |-> 0, characterCount |-> 0, html |-> text]
        blocksOfEls(els) == [j \in 1..Len(els) |-> embedded(elText(els[j]), j)]
    IN blocksOfEls(SelectSeq(turn.blocks, LAMBDA el : trim(elText(el)) # <<>>))

\* UniversalExtractor.extractMessage; Null when the turn has no text
extractMessage(turn, index) ==
    IF trim(turn.text) = <<>> THEN Null
    ELSE [id |-> <<"msg", index>>,
          author |-> turn.role,
          content |-> turn.text,
          html |-> turn.text,
          wordCount |-> wordCountSplit(turn.text),
          characterCount |-> Len(turn.text),
          thinkingBlocks |-> extractEmbeddedThinking(turn),
          references |-> turn.refs]

\* UniversalExtractor.extractThinkingBlock over the discovered elements
extractThinkingBlocks(pg) ==
    LET thinking(text, j) ==
            [id |-> <<"thinking", j - 1>>, type |-> "", summary |-> <<>>,
             content |-> text,
             wordCount |-> wordCountSplit(text),
             characterCount |-> Len(text),
             html |-> text]
        picked(els, idx) == [n \in 1..Len(idx) |-> thinking(elText(els[idx[n]]), idx[n])]
        discovered(els) ==
            picked(els, SelectSeq([j \in 1..Len(els) |-> j],
                                  LAMBDA j : trim(elText(els[j])) # <<>>))
    IN discovered(allElements(pg))

RECURSIVE collapseWs(_)
collapseWs(s) ==
    IF Len(s) < 2 THEN s
    ELSE IF s[1] = Ws /\ s[2] = Ws THEN collapseWs(Tail(s))
    ELSE <<Head(s)>> \o collapseWs(Tail(s))

MessageSignaturePrefix == 500

messageSignature(message) ==
    <<message.author, "|">> \o slice(collapseWs(trim(message.content)), MessageSignaturePrefix)

RECURSIVE dedupeMessagesFrom(_, _, _, _)
dedupeMessagesFrom(messages, i, previousSignature, deduped) ==
    IF i > Len(messages) THEN deduped
    ELSE LET step(signature) ==
                 IF signature # previousSignature
                 THEN [previousSignature |-> signature,
                       deduped |-> Append(deduped, messages[i])]
                 ELSE [previousSignature |-> previousSignature, deduped |-> deduped]
             next(after) ==
                 dedupeMessagesFrom(messages, i + 1, after.previousSignature, after.deduped)
         IN next(step(messageSignature(messages[i])))

dedupeMessages(messages) ==
    IF Len(messages) <= 1 THEN messages
    ELSE dedupeMessagesFrom(messages, 1, <<>>, <<>>)

emptyDocument(pg) ==
    LET raw(html) == [original |-> html, expanded |-> html]
    IN [metadata |-> initialMetadata(pg),
        messages |-> <<>>,
        thinkingBlocks |-> <<>>,
        rawHtml |-> raw(pageText(pg))]

\* UniversalExtractor.extractConversation (discover, extractContent, postProcess).
\* threw: 'No messages found during extraction' when no turn element is discovered.
universalExtractConversation(pg) ==
    IF Len(pg.turns) = 0 THEN [data |-> Null, threw |-> TRUE]
    ELSE [data |-> postProcess(
                     [emptyDocument(pg) EXCEPT
                         !.messages =
                             dedupeMessages(
                                 SelectSeq([k \in 1..Len(pg.turns) |->
                                               extractMessage(pg.turns[k], k - 1)],
                                           LAMBDA m : m # Null)),
                         !.thinkingBlocks = extractThinkingBlocks(pg)]),
          threw |-> FALSE]

\* ---- ClaudeExtractor ----------------------------------------------------
includes(text, unit) == unit \in Range(text)

countUnits(text, units) == Cardinality({i \in 1..Len(text) : text[i] \in units})

DomainUnits == {"github.com", "arxiv.org"}

CapitalUnits == {"Ran", "Done", "Title"}

SummaryVerbUnits == {"Ran", "Read", "Check"}

countDomains(text) == countUnits(text, DomainUnits)

SearchSummaryMinLength == 80

looksLikeSearchResults(content, summary) ==
    IF Len(summary) < SearchSummaryMinLength THEN FALSE
    ELSE \/ 2 * countUnits(summary, CapitalUnits) > wordCountSplit(summary)
            /\ wordCountSplit(summary) > 10
         \/ countDomains(summary) >= 2
         \/ summary[Len(summary)] = "Done" /\ Len(summary) > 100

\* the condition of each category of detectBlockType
categoryHolds(category, content, summary, rich) ==
    CASE category = "web_search" ->
             \/ includes(content, "searched the web")
             \/ includes(content, "search results")
             \/ includes(summary, "searched")
             \/ includes(summary, "searched the web")
             \/ looksLikeSearchResults(content, summary)
             \/ rich /\ countDomains(content) >= 3
      [] category = "tool_call" ->
             \/ summary # <<>> /\ Head(summary) \in SummaryVerbUnits /\ Len(summary) > 1
             \/ includes(content, "Output")
             \/ includes(content, "FENCE bash")
      [] category = "prompt_chain" ->
             \/ includes(summary, "prompt")
             \/ includes(summary, "system prompt")
             \/ includes(content, "system prompt")
             \/ includes(content, "prompt chain")
      [] category = "file_edit" ->
             \/ summary # <<>> /\ Head(summary) = "+1-1"
             \/ content # <<>> /\ Head(content) = "+1-1"
      [] category = "code" ->
             \/ includes(summary, "x.js")
             \/ countUnits(content, {"FENCE", "FENCE bash"}) >= 2
      [] OTHER -> TRUE

\* a classification that tests the tool-call heuristics before the web-search ones
detectBlockTypeToolFirst(content, summary, rich) ==
    IF categoryHolds("tool_call", content, summary, rich) THEN "tool_call"
    ELSE IF categoryHolds("web_search", content, summary, rich) THEN "web_search"
    ELSE IF categoryHolds("prompt_chain", content, summary, rich) THEN "prompt_chain"
    ELSE IF categoryHolds("file_edit", content, summary, rich) THEN "file_edit"
    ELSE IF categoryHolds("code", content, summary, rich) THEN "code"
    ELSE "thinking"

\* first match wins: web_search, tool_call, prompt_chain, file_edit, code, thinking
detectBlockType(content, summary, rich) ==
    IF \/ includes(content, "searched the web")
       \/ includes(content, "search results")
       \/ includes(summary, "searched")
       \/ includes(summary, "searched the web")
       \/ looksLikeSearchResults(content, summary)
       \/ rich /\ countDomains(content) >= 3
    THEN "web_search"
    ELSE IF \/ summary # <<>> /\ Head(summary) \in SummaryVerbUnits /\ Len(summary) > 1
            \/ includes(content, "Output")
            \/ includes(content, "FENCE bash")
    THEN "tool_call"
    ELSE IF \/ includes(summary, "prompt")
            \/ includes(summary, "system prompt")
            \/ includes(content, "system prompt")
            \/ includes(content, "prompt chain")
    THEN "prompt_chain"
    ELSE IF \/ summary # <<>> /\ Head(summary) = "+1-1"
            \/ content # <<>> /\ Head(content) = "+1-1"
    THEN "file_edit"
    ELSE IF \/ includes(summary, "x.js")
            \/ countUnits(content, {"FENCE", "FENCE bash"}) >= 2
    THEN "code"
    ELSE "thinking"

\* ClaudeExtractor.extractSingleBlock; Null when neither text nor summary
extractSingleBlock(el, index) ==
    LET block(summary, type, finalContent) ==
            IF finalContent = <<>> THEN Null
            ELSE [id |-> <<"thinking", index>>, type |-> type, summary |-> summary,
                  content |-> finalContent,
                  wordCount |-> wordCountFiltered(finalContent),
                  characterCount |-> Len(finalContent),
                  html |-> <<>>]
        typed(summary, content) ==
            block(summary, detectBlockType(content, summary, el.rich),
                  IF content # <<>> THEN content ELSE summary)
    IN typed(trim(el.summary), trim(el.body))

extractBlocksFromResponse(turn) ==
    SelectSeq([j \in 1..Len(turn.blocks) |-> extractSingleBlock(turn.blocks[j], j - 1)],
              LAMBDA b : b # Null)

\* ClaudeExtractor.extractUserTurn / extractAssistantTurn; Null when dropped
extractTurn(turn, index) ==
    LET message(content, thinkingData) ==
            IF content = <<>> /\ thinkingData = <<>> THEN Null
            ELSE [id |-> <<"msg", index>>,
                  author |-> turn.role,
                  content |-> content,
                  html |-> turn.text,
                  wordCount |-> wordCountFiltered(content),
                  characterCount |-> Len(content),
                  thinkingBlocks |-> thinkingData,
                  references |-> turn.refs]
    IN message(trim(turn.text),
               IF turn.role = "user" THEN <<>> ELSE extractBlocksFromResponse(turn))

\* ClaudeExtractor.extractConversation: the blocks of every kept assistant turn
\* are pushed to the top-level list as well.
claudeExtractConversation(pg) ==
    LET doc(messages) ==
            [emptyDocument(pg) EXCEPT
                !.messages = messages,
                !.thinkingBlocks =
                    Flatten([k \in 1..Len(messages) |-> messages[k].thinkingBlocks])]
    IN [data |-> postProcess(
                     doc(SelectSeq([k \in 1..Len(pg.turns) |->
                                       extractTurn(pg.turns[k], k - 1)],
                                   LAMBDA m : m # Null))),
        threw |-> FALSE]

\* ---- ChatGPTExtractor ---------------------------------------------------
ToolUnits == {"tool", "Output"}

PromptUnits == {"prompt", "system prompt", "prompt chain"}

ReasonUnits == {"reason", "ReasoningNL"}

classifyTraceType(summary, hint, content) ==
    LET combined == summary \o hint \o content IN
    IF countUnits(combined, ToolUnits) > 0 THEN "tool_call"
    ELSE IF countUnits(combined, PromptUnits) > 0 THEN "prompt_chain"
    ELSE IF countUnits(combined, ReasonUnits) > 0 THEN "thinking"
    ELSE "trace"

HeaderUnits == {"ReasoningNL"}

startsWith(text, prefix) ==
    Len(prefix) <= Len(text) /\ SubSeq(text, 1, Len(prefix)) = prefix

dropPrefix(text, n) == SubSeq(text, n + 1, Len(text))

\* the content a block is keyed and stored by: header line and leading summary removed
normalizedContent(block) ==
    LET withoutHeader(c0) ==
            IF c0 # <<>> /\ Head(c0) \in HeaderUnits THEN trim(Tail(c0)) ELSE c0
        withoutSummary(summary, c1) ==
            IF summary # <<>> /\ startsWith(c1, summary)
            THEN trim(dropPrefix(c1, Len(summary)))
            ELSE c1
    IN withoutSummary(trim(block.summary), withoutHeader(trim(block.content)))

TracePrefix == 500

priority(type) ==
    CASE type \in {"tool_call", "prompt_chain"} -> 3
      [] type = "thinking" -> 2
      [] type = "trace" -> 1
      [] OTHER -> 0

\* { ...existing, ...block }: a property the later block lacks keeps the earlier value
spread(existing, block) ==
    [id |-> IF block.id # <<>> THEN block.id ELSE existing.id,
     type |-> IF block.type # "" THEN block.type ELSE existing.type,
     summary |-> IF block.summary # <<>> THEN block.summary ELSE existing.summary,
     content |-> block.content,
     wordCount |-> IF block.wordCount # 0 THEN block.wordCount ELSE existing.wordCount,
     characterCount |-> IF block.characterCount # 0 THEN block.characterCount
                        ELSE existing.characterCount,
     html |-> IF block.html # <<>> THEN block.html ELSE existing.html]

positionOf(deduped, key) ==
    LET hits == {j \in 1..Len(deduped) : deduped[j].key = key}
    IN IF hits = {} THEN 0 ELSE CHOOSE j \in hits : TRUE

\* ChatGPTExtractor.dedupeThinkingBlocks; entries carry the key they were stored under
RECURSIVE dedupeThinkingBlocksFrom(_, _, _)
dedupeThinkingBlocksFrom(blocks, i, deduped) ==
    IF i > Len(blocks) THEN deduped
    ELSE LET stored(b, type, content, contentSignature) ==
                 [key |-> contentSignature,
                  block |-> [b EXCEPT !.type = type, !.content = content]]
             step(block, type, content, contentSignature, existingIndex) ==
                 IF contentSignature = <<>> THEN deduped
                 ELSE IF existingIndex # 0
                 THEN IF priority(type) <= priority(deduped[existingIndex].block.type)
                      THEN deduped
                      ELSE [deduped EXCEPT ![existingIndex] =
                               stored(spread(@.block, block), type, content, contentSignature)]
                 ELSE Append(deduped, stored(block, type, content, contentSignature))
             keyed(block, content, contentSignature) ==
                 step(block, typeOf(block), content, contentSignature,
                      positionOf(deduped, contentSignature))
             visit(block, content) == keyed(block, content, slice(content, TracePrefix))
         IN dedupeThinkingBlocksFrom(blocks, i + 1,
                                     visit(blocks[i], normalizedContent(blocks[i])))

dedupeThinkingBlocks(blocks) ==
    LET values(deduped) == [j \in 1..Len(deduped) |-> deduped[j].block]
    IN values(dedupeThinkingBlocksFrom(blocks, 1, <<>>))

defaultSummary(type) ==
    CASE type = "tool_call" -> <<"Tool Call Trace">>
      [] type = "prompt_chain" -> <<"Prompt Chain Trace">>
      [] OTHER -> <<"Reasoning Trace">>

\* ChatGPTExtractor.extractTraceBlocks
extractTraceBlocks(turn) ==
    LET trace(el, j, summary, finalContent, type) ==
            IF finalContent = <<>> \/ (type = "trace" /\ el.tag # "DETAILS") THEN Null
            ELSE [id |-> <<"chatgpt_trace", j - 1>>, type |-> type,
                  summary |-> IF summary # <<>> THEN summary ELSE defaultSummary(type),
                  content |-> finalContent,
                  wordCount |-> wordCountFiltered(finalContent),
                  characterCount |-> Len(finalContent),
                  html |-> elText(el)]
        classified(el, j, summary, finalContent) ==
            trace(el, j, summary, finalContent,
                  classifyTraceType(summary, summary \o el.hint, finalContent))
        read(el, j, summary, content) ==
            classified(el, j, summary, IF content # <<>> THEN content ELSE summary)
        traceOf(j) ==
            read(turn.blocks[j], j, trim(turn.blocks[j].summary), trim(turn.blocks[j].body))
    IN dedupeThinkingBlocks(
           SelectSeq([j \in 1..Len(turn.blocks) |-> traceOf(j)], LAMBDA b : b # Null))

\* ChatGPTExtractor.extractMessage: the message (Null when the turn has no
\* text) and the blocks it pushes to the top-level list
chatgptExtractMessage(turn, index) ==
    LET attached(message, merged) ==
            [message |-> [message EXCEPT !.thinkingBlocks = merged], pushed |-> merged]
        traced(message, traceBlocks) ==
            IF message = Null THEN [message |-> Null, pushed |-> <<>>]
            ELSE IF traceBlocks = <<>> THEN [message |-> message, pushed |-> <<>>]
            ELSE attached(message,
                          dedupeThinkingBlocks(message.thinkingBlocks \o traceBlocks))
    IN traced(extractMessage(turn, index), extractTraceBlocks(turn))

\* UniversalExtractor.extractConversation with the ChatGPT overrides of
\* extractMessage and postProcess
chatgptExtractConversation(pg) ==
    LET messagesOf(kept) == [k \in 1..Len(kept) |-> kept[k].message]
        recount(processed) ==
            [processed EXCEPT
                !.metadata.thinkingBlockCount = Len(processed.thinkingBlocks),
                !.metadata.hasThinkingBlocks = Len(processed.thinkingBlocks) > 0,
                !.metadata.blockTypeBreakdown = tallyBlockTypes(processed.thinkingBlocks)]
        doc(extracted) ==
            [emptyDocument(pg) EXCEPT
                !.messages =
                    dedupeMessages(
                        messagesOf(SelectSeq(extracted, LAMBDA e : e.message # Null))),
                !.thinkingBlocks =
                    dedupeThinkingBlocks(
                        Flatten([k \in 1..Len(extracted) |-> extracted[k].pushed])
                        \o extractThinkingBlocks(pg))]
    IN IF Len(pg.turns) = 0 THEN [data |-> Null, threw |-> TRUE]
       ELSE [data |-> recount(postProcess(
                          doc([k \in 1..Len(pg.turns) |->
                                  chatgptExtractMessage(pg.turns[k], k - 1)]))),
             threw |-> FALSE]

extractConversation(pg) ==
    CASE pg.platform = "claude" -> claudeExtractConversation(pg)
      [] pg.platform = "chatgpt" -> chatgptExtractConversation(pg)
      [] OTHER -> universalExtractConversation(pg)

\* ------------------------------------------------------------------------
\* Export options, scoping
\* ------------------------------------------------------------------------
\* parsePositiveInt: 0 stands for null
parsePositiveInt(value) == IF value > 0 THEN value ELSE 0

orElse(value, default) == IF value # 0 THEN value ELSE default

\* a range resolution that clamps both bounds and swaps a reversed pair
resolveMessageRangeOrdered(options, totalMessages) ==
    IF options.scope = "single"
    THEN LET single(oneBased) ==
                 [start |-> oneBased - 1, end |-> oneBased - 1,
                  label |-> <<"message", oneBased>>]
         IN single(Min(totalMessages,
                       Max(1, orElse(parsePositiveInt(options.scopeStart), totalMessages))))
    ELSE IF options.scope = "range"
    THEN LET ordered(start, end) ==
                 [start |-> Min(start, end) - 1, end |-> Max(start, end) - 1,
                  label |-> <<"range", Min(start, end), Max(start, end)>>]
         IN ordered(Min(totalMessages,
                        Max(1, orElse(parsePositiveInt(options.scopeStart), 1))),
                    Min(totalMessages,
                        Max(1, orElse(parsePositiveInt(options.scopeEnd), totalMessages))))
    ELSE [start |-> 0, end |-> totalMessages - 1, label |-> <<"all">>]

resolveMessageRange(options, totalMessages) ==
    IF options.scope = "single"
    THEN LET single(oneBased) ==
                 [start |-> oneBased - 1, end |-> oneBased - 1,
                  label |-> <<"message", oneBased>>]
         IN single(Min(totalMessages,
                       Max(1, orElse(parsePositiveInt(options.scopeStart), totalMessages))))
    ELSE IF options.scope = "range"
    THEN LET range(clampedStart, clampedEnd) ==
                 [start |-> clampedStart - 1, end |-> clampedEnd - 1,
                  label |-> <<"range", clampedStart, clampedEnd>>]
             clamped(clampedStart, end) ==
                 range(clampedStart, Min(totalMessages, Max(clampedStart, end)))
         IN clamped(Min(totalMessages,
                        Max(1, orElse(parsePositiveInt(options.scopeStart), 1))),
                    orElse(parsePositiveInt(options.scopeEnd), totalMessages))
    ELSE [start |-> 0, end |-> totalMessages - 1, label |-> <<"all">>]

\* the same messages, last one first
sliceMessagesReversed(messages, start, end) ==
    [k \in 1..(Min(end + 1, Len(messages)) - start) |->
        messages[Min(end + 1, Len(messages)) + 1 - k]]

\* messages.slice(start, end + 1) with 0-based bounds
sliceMessages(messages, start, end) == SubSeq(messages, start + 1, Min(end + 1, Len(messages)))

\* the reference index of the whole conversation
wholeReferenceIndex(exportData, scopedMessages) ==
    computeReferenceIndexFromMessages(exportData.messages)

scopedReferenceIndex(exportData, scopedMessages) ==
    computeReferenceIndexFromMessages(scopedMessages)

scopedDocument(exportData, options) ==
    LET scopedMetadata(range, scopedMessages, scopedThinkingBlocks,
                       referenceIndex, uploadedDocuments) ==
            [exportData.metadata EXCEPT
                !.messageCount = Len(scopedMessages),
                !.thinkingBlockCount = Len(scopedThinkingBlocks),
                !.totalWordCount =
                    SumSeq([k \in 1..Len(scopedMessages) |-> scopedMessages[k].wordCount]),
                !.scope = range.label,
                !.blockTypeBreakdown = tallyBlockTypes(scopedThinkingBlocks),
                !.referenceIndex = referenceIndex,
                !.referenceCount = referenceIndex.total,
                !.linkCount = Len(referenceIndex.links),
                !.attachmentCount = Len(referenceIndex.attachments),
                !.citationCount = Len(referenceIndex.citations),
                !.uploadedDocuments = uploadedDocuments,
                !.uploadedDocumentCount = Len(uploadedDocuments)]
        scoped(range, scopedMessages, scopedThinkingBlocks) ==
            [exportData EXCEPT
                !.messages = scopedMessages,
                !.thinkingBlocks = scopedThinkingBlocks,
                !.metadata =
                    scopedMetadata(range, scopedMessages, scopedThinkingBlocks,
                                   scopedReferenceIndex(exportData, scopedMessages),
                                   computeUploadedDocumentsFromMessages(scopedMessages))]
        sliced(range, scopedMessages) ==
            scoped(range, scopedMessages,
                   Flatten([k \in 1..Len(scopedMessages) |->
                               scopedMessages[k].thinkingBlocks]))
        ranged(range) ==
            sliced(range, sliceMessages(exportData.messages, range.start, range.end))
    IN ranged(resolveMessageRange(options, Len(exportData.messages)))

\* scoping done by assigning to the session's document itself
buildScopedExportDataInPlace(exportData, options) ==
    [isExportData |-> TRUE, data |-> scopedDocument(exportData, options)]

\* The value returned is a new object (isExportData = FALSE): assignments to its
\* properties do not reach the session's document.
buildScopedExportData(exportData, options) ==
    [isExportData |-> FALSE, data |-> scopedDocument(exportData, options)]

\* ------------------------------------------------------------------------
\* Redaction
\* ------------------------------------------------------------------------
replaceUnit(text, from, to) == [i \in 1..Len(text) |-> IF text[i] = from THEN to ELSE text[i]]

RECURSIVE nonWhiteRun(_)
nonWhiteRun(text) ==
    IF text = <<>> \/ Head(text) = Ws THEN 0 ELSE 1 + nonWhiteRun(Tail(text))

CredentialKeyUnits == {"token=", "password:"}

\* (password|...|token)\s*[:=]\s*[^\s]+  ->  [REDACTED_CREDENTIAL]
RECURSIVE redactCredentials(_)
redactCredentials(text) ==
    IF text = <<>> THEN <<>>
    ELSE IF Head(text) \in CredentialKeyUnits
    THEN LET replaced(value, run) ==
                 IF run = 0 THEN <<Head(text)>> \o redactCredentials(Tail(text))
                 ELSE <<"[REDACTED_CREDENTIAL]">> \o redactCredentials(dropPrefix(value, run))
             matched(value) == replaced(value, nonWhiteRun(value))
         IN matched(TrimLeft(Tail(text)))
    ELSE <<Head(text)>> \o redactCredentials(Tail(text))

applySensitiveRedaction(text) ==
    replaceUnit(
        redactCredentials(
            replaceUnit(
                replaceUnit(
                    replaceUnit(text, "EMAIL", "[REDACTED_EMAIL]"),
                    "PHONE", "[REDACTED_PHONE]"),
                "SKTOKEN", "[REDACTED_TOKEN]")),
        "FILE.pdf", "[REDACTED_FILE].pdf")

PdfNameUnits == {"FILE.pdf", "[REDACTED_FILE].pdf"}

redactFilename(value) ==
    IF value = <<>> THEN value
    ELSE IF trim(value) # <<>> /\ trim(value)[Len(trim(value))] \in PdfNameUnits
    THEN <<"[REDACTED_FILE].pdf">>
    ELSE <<"[REDACTED_FILE]">>

OriginUnits == {"https://host"}

\* new URL(value) succeeds when the text starts with an origin
redactUrl(value) ==
    IF value = <<>> THEN value
    ELSE IF Head(value) \in OriginUnits THEN <<Head(value), "/[REDACTED_PATH]">>
    ELSE applySensitiveRedaction(value)

redactFile(item) ==
    [item EXCEPT !.name = redactFilename(applySensitiveRedaction(item.name)),
                 !.url = redactUrl(item.url)]

redactReferenceSet(refs) ==
    [links |-> [k \in 1..Len(refs.links) |->
                   [refs.links[k] EXCEPT
                       !.title = redactFilename(applySensitiveRedaction(refs.links[k].title)),
                       !.url = redactUrl(refs.links[k].url)]],
     attachments |-> [k \in 1..Len(refs.attachments) |-> redactFile(refs.attachments[k])],
     documents |-> [k \in 1..Len(refs.documents) |-> redactFile(refs.documents[k])],
     citations |-> [k \in 1..Len(refs.citations) |->
                   [refs.citations[k] EXCEPT
                       !.text = applySensitiveRedaction(refs.citations[k].text),
                       !.url = redactUrl(refs.citations[k].url)]]]

redactBlock(block) ==
    [block EXCEPT !.content = applySensitiveRedaction(block.content),
                  !.summary = applySensitiveRedaction(block.summary),
                  !.html = applySensitiveRedaction(block.html)]

redactMessage(message) ==
    [message EXCEPT
        !.content = applySensitiveRedaction(message.content),
        !.html = applySensitiveRedaction(message.html),
        !.references = redactReferenceSet(message.references),
        !.thinkingBlocks = [j \in 1..Len(message.thinkingBlocks) |->
                               redactBlock(message.thinkingBlocks[j])]]

\* Without redaction the argument itself is returned; with redaction a deep
\* clone (JSON.parse(JSON.stringify())) is edited and returned.
sanitizeExportDataForOptions(source, options) ==
    IF ~options.redactSensitive THEN source
    ELSE LET clone == source.data IN
         [isExportData |-> FALSE,
          data |-> [clone EXCEPT
              !.messages = [k \in 1..Len(clone.messages) |-> redactMessage(clone.messages[k])],
              !.thinkingBlocks = [j \in 1..Len(clone.thinkingBlocks) |->
                                     redactBlock(clone.thinkingBlocks[j])],
              !.metadata = [clone.metadata EXCEPT
                  !.referenceIndex = redactReferenceSet(clone.metadata.referenceIndex),
                  !.uploadedDocuments =
                      [k \in 1..Len(clone.metadata.uploadedDocuments) |->
                          redactFile(clone.metadata.uploadedDocuments[k])]],
              !.rawHtml = [original |-> IF options.includeHtml
                                        THEN applySensitiveRedaction(clone.rawHtml.original)
                                        ELSE <<>>,
                           expanded |-> IF options.includeHtml
                                        THEN applySensitiveRedaction(clone.rawHtml.expanded)
                                        ELSE <<>>]]]

getPreparedExportData(exportData, options) ==
    sanitizeExportDataForOptions(buildScopedExportData(exportData, options), options)

\* ------------------------------------------------------------------------
\* Generators.  An output is [kind, units, doc, written]: units is the text
\* of the artifact as a sequence of lexical units, doc the document the
\* artifact was rendered from, written the final value of the object the
\* generator worked on.
\* ------------------------------------------------------------------------
refUnits(refs) ==
    Flatten([k \in 1..Len(refs.links) |-> refs.links[k].title \o refs.links[k].url]) \o
    Flatten([k \in 1..Len(refs.attachments) |->
                refs.attachments[k].name \o refs.attachments[k].url]) \o
    Flatten([k \in 1..Len(refs.documents) |->
                refs.documents[k].name \o refs.documents[k].url]) \o
    Flatten([k \in 1..Len(refs.citations) |->
                refs.citations[k].text \o refs.citations[k].url])

uploadUnits(docs) == Flatten([k \in 1..Len(docs) |-> docs[k].name \o docs[k].url])

blockUnits(block) == block.summary \o block.content \o block.html

\* JSON.stringify(metadata)
metadataUnits(metadata) ==
    metadata.title \o metadata.conversationSummary.firstMessage \o
    metadata.conversationSummary.lastMessage \o refUnits(metadata.referenceIndex) \o
    uploadUnits(metadata.uploadedDocuments)

\* JSON.stringify(document)
documentUnits(doc) ==
    Flatten([k \in 1..Len(doc.messages) |->
                doc.messages[k].content \o doc.messages[k].html \o
                refUnits(doc.messages[k].references) \o
                Flatten([j \in 1..Len(doc.messages[k].thinkingBlocks) |->
                            blockUnits(doc.messages[k].thinkingBlocks[j])])]) \o
    Flatten([j \in 1..Len(doc.thinkingBlocks) |-> blockUnits(doc.thinkingBlocks[j])]) \o
    metadataUnits(doc.metadata) \o doc.rawHtml.original \o doc.rawHtml.expanded

\* the body every text rendering shares: per message its blocks (with
\* includeThinking) and its content, then the uploaded-documents list
bodyUnits(doc, options) ==
    Flatten([k \in 1..Len(doc.messages) |->
                (IF options.includeThinking
                 THEN Flatten([j \in 1..Len(doc.messages[k].thinkingBlocks) |->
                                  doc.messages[k].thinkingBlocks[j].content])
                 ELSE <<>>) \o doc.messages[k].content])

output(kind, units, prepared, written) ==
    [kind |-> kind, units |-> units, doc |-> written,
     isExportData |-> prepared.isExportData, written |-> written,
     graph |-> Null, canonical |-> Null, research |-> Null]

generateMarkdown(exportData, options) ==
    LET rendered(scoped) ==
            output("string",
                   bodyUnits(scoped.data, options) \o
                   (IF options.includeMetadata THEN metadataUnits(scoped.data.metadata)
                    ELSE <<>>) \o
                   uploadUnits(scoped.data.metadata.uploadedDocuments),
                   scoped, scoped.data)
    IN rendered(getPreparedExportData(exportData, options))

\* metadata = { platform, exportDate, messageCount }: every other field absent
strippedMetadata(metadata) ==
    [platform |-> metadata.platform,
     title |-> <<>>,
     messageCount |-> metadata.messageCount,
     thinkingBlockCount |-> 0,
     hasThinkingBlocks |-> FALSE,
     totalWordCount |-> 0,
     totalCharacterCount |-> 0,
     userMessageCount |-> 0,
     assistantMessageCount |-> 0,
     blockTypeBreakdown |-> NoBreakdown,
     referenceIndex |-> NoRefs,
     referenceCount |-> 0,
     linkCount |-> 0,
     attachmentCount |-> 0,
     citationCount |-> 0,
     uploadedDocuments |-> <<>>,
     uploadedDocumentCount |-> 0,
     conversationSummary |-> [firstMessage |-> <<>>, lastMessage |-> <<>>],
     scope |-> <<>>]

generateJSON(exportData, options) ==
    LET withoutThinking(data) ==
            IF ~options.includeThinking
            THEN [data EXCEPT
                     !.messages = [k \in 1..Len(data.messages) |->
                                      [data.messages[k] EXCEPT !.thinkingBlocks = <<>>]],
                     !.thinkingBlocks = <<>>]
            ELSE data
        withoutHtml(data) ==
            IF ~options.includeHtml
            THEN [data EXCEPT
                     !.rawHtml = [original |-> <<>>, expanded |-> <<>>],
                     !.messages = [k \in 1..Len(data.messages) |->
                                      [data.messages[k] EXCEPT !.html = <<>>]]]
            ELSE data
        withoutMetadata(data) ==
            IF ~options.includeMetadata
            THEN [data EXCEPT !.metadata = strippedMetadata(data.metadata)]
            ELSE data
        rendered(prepared, data) == output("string", documentUnits(data), prepared, data)
        stringified(prepared) ==
            rendered(prepared, withoutMetadata(withoutHtml(withoutThinking(prepared.data))))
    IN stringified(getPreparedExportData(exportData, options))

graphUnits(doc) ==
    Flatten([k \in 1..Len(doc.messages) |->
                Flatten([j \in 1..Len(doc.messages[k].thinkingBlocks) |->
                            slice(doc.messages[k].thinkingBlocks[j].summary, 120)]) \o
                refUnits([doc.messages[k].references EXCEPT !.citations = <<>>])])

\* pushNode: a node whose id is already present is not added again
RECURSIVE pushNodes(_, _)
pushNodes(nodes, new) ==
    IF new = <<>> THEN nodes
    ELSE pushNodes(IF \E n \in 1..Len(nodes) : nodes[n].id = Head(new).id
                   THEN nodes ELSE Append(nodes, Head(new)),
                   Tail(new))

\* `conversation:${platform}:${exportDate}`; exportDate is the date stored in
\* the document's metadata at extraction, the same on every run
conversationId(scoped) == <<"conversation", scoped.metadata.platform>>

messageNodeId(message, msgIndex) ==
    <<"message", IF message.id # <<>> THEN message.id ELSE msgIndex>>

blockNodeId(messageId, block, blockIndex) ==
    <<"block", messageId, IF block.id # <<>> THEN block.id ELSE blockIndex>>

firstOf(a, b, fallback) == IF a # <<>> THEN a ELSE IF b # <<>> THEN b ELSE fallback

\* the nodes and edges one message adds, in the order of the forEach body
messageGraph(conversation, message, messageId) ==
    LET refs == normalizeReferenceSet(message.references)
        blockNodes ==
            [j \in 1..Len(message.thinkingBlocks) |->
                [id |-> blockNodeId(messageId, message.thinkingBlocks[j], j - 1),
                 type |-> IF message.thinkingBlocks[j].type # ""
                          THEN message.thinkingBlocks[j].type ELSE "thinking",
                 edge |-> "has_trace"]]
        linkNodes ==
            [j \in 1..Len(refs.links) |->
                [id |-> <<"ref:link", messageId, j - 1,
                          firstOf(refs.links[j].url, refs.links[j].title, <<"unknown">>)>>,
                 type |-> "link", edge |-> "references"]]
        documentNodes ==
            [j \in 1..Len(refs.documents) |->
                [id |-> <<"ref:document", messageId, j - 1,
                          firstOf(refs.documents[j].url, refs.documents[j].name,
                                  <<"unknown">>)>>,
                 type |-> "document", edge |-> "references"]]
        attachmentNodes ==
            [j \in 1..Len(refs.attachments) |->
                [id |-> <<"ref:attachment", messageId, j - 1,
                          firstOf(refs.attachments[j].name, <<>>, <<"attachment">>)>>,
                 type |-> "attachment", edge |-> "attached"]]
        below == blockNodes \o linkNodes \o documentNodes \o attachmentNodes
    IN [nodes |-> <<[id |-> messageId, type |-> "message"]>> \o
                  [j \in 1..Len(below) |-> [id |-> below[j].id, type |-> below[j].type]],
        edges |-> <<[from |-> conversation, to |-> messageId, type |-> "contains"]>> \o
                  [j \in 1..Len(below) |->
                      [from |-> messageId, to |-> below[j].id, type |-> below[j].edge]]]

RECURSIVE graphFrom(_, _, _)
graphFrom(scoped, k, graph) ==
    IF k > Len(scoped.messages) THEN graph
    ELSE LET added(part) ==
                 [nodes |-> pushNodes(graph.nodes, part.nodes),
                  edges |-> graph.edges \o part.edges]
         IN graphFrom(scoped, k + 1,
                      added(messageGraph(conversationId(scoped), scoped.messages[k],
                                         messageNodeId(scoped.messages[k], k - 1))))

\* graph: { nodes, edges } of generateGraphJSON
graphOf(scoped) ==
    graphFrom(scoped, 1,
              [nodes |-> <<[id |-> conversationId(scoped), type |-> "conversation"]>>,
               edges |-> <<>>])

generateGraphJSON(exportData, options) ==
    LET rendered(scoped) ==
            [output("string", graphUnits(scoped.data), scoped, scoped.data)
                EXCEPT !.graph = graphOf(scoped.data)]
    IN rendered(getPreparedExportData(exportData, options))

\* analyzeThinkingPatterns and analyzeConversationFlow read this.exportData;
\* of their results the counts are kept
analyzeThinkingPatterns(data) ==
    IF Len(data.thinkingBlocks) = 0 THEN Null
    ELSE [totalBlocks |-> Len(data.thinkingBlocks)]

analyzeConversationFlow(data) ==
    [turnCount |-> Len(data.messages),
     userInitiated |-> Len(data.messages) > 0 /\ data.messages[1].author = "user"]

researchOf(data) ==
    [thinkingAnalysis |-> analyzeThinkingPatterns(data),
     conversationFlow |-> analyzeConversationFlow(data)]

\* a Memory Pack whose canonical section is the session's whole document
generateMemoryPackUnscoped(exportData, options) ==
    LET rendered(scoped) ==
            [output("string", graphUnits(scoped.data), scoped, scoped.data)
                EXCEPT !.graph = generateGraphJSON(exportData, options).graph,
                       !.canonical = [messages |-> exportData.messages,
                                      thinkingBlocks |-> exportData.thinkingBlocks]]
    IN rendered(getPreparedExportData(exportData, options))

generateMemoryPack(exportData, options) ==
    LET rendered(scoped) ==
            [output("string",
                    metadataUnits(scoped.data.metadata) \o
                    documentUnits([scoped.data EXCEPT
                                      !.metadata = strippedMetadata(scoped.data.metadata),
                                      !.rawHtml = [original |-> <<>>, expanded |-> <<>>]]) \o
                    graphUnits(scoped.data),
                    scoped, scoped.data)
                EXCEPT !.graph = generateGraphJSON(exportData, options).graph,
                       !.canonical = [messages |-> scoped.data.messages,
                                      thinkingBlocks |-> scoped.data.thinkingBlocks],
                       !.research = researchOf(exportData)]
    IN rendered(getPreparedExportData(exportData, options))

generateCSV(exportData, options) ==
    LET rendered(scoped) ==
            output("string",
                   bodyUnits(scoped.data, options) \o
                   uploadUnits(scoped.data.metadata.uploadedDocuments),
                   scoped, scoped.data)
    IN rendered(getPreparedExportData(exportData, options))

generateHTML(exportData, options) ==
    LET rendered(scoped) ==
            output("string",
                   bodyUnits(scoped.data, options) \o
                   uploadUnits(scoped.data.metadata.uploadedDocuments),
                   scoped, scoped.data)
    IN rendered(getPreparedExportData(exportData, options))

generateText(exportData, options) ==
    LET rendered(scoped) ==
            output("string",
                   bodyUnits(scoped.data, options) \o
                   uploadUnits(scoped.data.metadata.uploadedDocuments),
                   scoped, scoped.data)
    IN rendered(getPreparedExportData(exportData, options))

\* rawData is read from the session's document, not from the prepared one
generateResearchArchive(exportData, options) ==
    LET rendered(scoped) ==
            [output("string",
                    documentUnits(scoped.data) \o
                    (IF options.includeHtml
                     THEN exportData.rawHtml.original \o exportData.rawHtml.expanded
                     ELSE <<>>),
                    scoped, scoped.data)
                EXCEPT !.research = researchOf(exportData)]
    IN rendered(getPreparedExportData(exportData, options))

\* a PDF generator that rethrows when the jsPDF library is missing
generatePDFWithoutFallback(exportData, options, libs) ==
    IF libs.jspdf
    THEN LET rendered(scoped) ==
                 output("blob", bodyUnits(scoped.data, options), scoped, scoped.data)
         IN rendered(getPreparedExportData(exportData, options))
    ELSE Null

\* Without the jsPDF library the handler falls back to the HTML rendering
\* and shows 'PDF generation failed, exported as HTML instead'.
generatePDF(exportData, options, libs) ==
    IF libs.jspdf
    THEN LET rendered(scoped) ==
                 output("blob", bodyUnits(scoped.data, options), scoped, scoped.data)
         IN rendered(getPreparedExportData(exportData, options))
    ELSE [generateHTML(exportData, options) EXCEPT !.kind = "htmlFallback"]

\* throws 'DOCX library not available' without the docx library
generateDOCX(exportData, options, libs) ==
    IF ~libs.docx THEN Null
    ELSE LET rendered(scoped) ==
                 output("blob", bodyUnits(scoped.data, options), scoped, scoped.data)
         IN rendered(getPreparedExportData(exportData, options))

\* ------------------------------------------------------------------------
\* The export session
\* ------------------------------------------------------------------------
VARIABLES
    page,        \* the conversation page the session is attached to
    exportData,  \* this.exportData: Null before the first analysis
    artifact,    \* the last file handed to downloadFile, Null when none
    status,      \* the last handler run and the message it showed, if any
    watcher,     \* the TurnWatcher of the content page, Null without one
    browser,     \* what the TurnWatcher runs in: DOM, location, clock, timers
    worker       \* the background service worker and its stored state

vars == <<page, exportData, artifact, status, watcher, browser, worker>>

Formats == {"pdf", "docx", "markdown", "json", "graph", "memorypack", "csv", "html",
            "txt", "research"}

NoError == ""

\* generateFormat: normalizes, then dispatches on the format.  The result is
\* the session's document after the call and the output (Null when it threw).
generateFormat(data, format, options, libs) ==
    LET dispatched(normalized) ==
            CASE format = "pdf" -> generatePDF(normalized, options, libs)
              [] format = "docx" -> generateDOCX(normalized, options, libs)
              [] format = "markdown" -> generateMarkdown(normalized, options)
              [] format = "json" -> generateJSON(normalized, options)
              [] format = "graph" -> generateGraphJSON(normalized, options)
              [] format = "memorypack" -> generateMemoryPack(normalized, options)
              [] format = "csv" -> generateCSV(normalized, options)
              [] format = "html" -> generateHTML(normalized, options)
              [] format = "txt" -> generateText(normalized, options)
              [] OTHER -> generateResearchArchive(normalized, options)
        returned(normalized, out) ==
            IF out = Null
            THEN [exportData |-> normalized, out |-> Null,
                  error |-> "DOCX library not available"]
            ELSE [exportData |-> IF out.isExportData THEN out.written ELSE normalized,
                  out |-> out,
                  error |-> IF out.kind = "htmlFallback"
                            THEN "PDF generation failed, exported as HTML instead"
                            ELSE NoError]
        generated(normalized) ==
            IF normalized.threw
            THEN [exportData |-> normalized.data, out |-> Null,
                  error |-> "No messages found to export"]
            ELSE returned(normalized.data, dispatched(normalized.data))
        again(first) ==
            IF format = "research" /\ ~first.threw
            THEN normalizeAndValidateExportData(first.data)
            ELSE first
    IN generated(again(normalizeAndValidateExportData(data)))

\* the body of analyzeConversation: the document it leaves in the session and
\* the message of the error it caught, if any
analyzed(pg, previous) ==
    LET checked(normalized) ==
            [exportData |-> normalized.data,
             error |-> IF normalized.threw THEN "No messages found to export" ELSE NoError]
        caught(extracted) ==
            IF extracted.threw
            THEN [exportData |-> previous, error |-> "No messages found during extraction"]
            ELSE checked(normalizeAndValidateExportData(extracted.data))
    IN caught(extractConversation(pg))

AnalyzeConversation ==
    \E result \in {analyzed(page, exportData)} :
    /\ exportData' = result.exportData
    /\ status' = [op |-> "analyze", format |-> "", error |-> result.error]
    /\ UNCHANGED <<page, artifact, watcher, browser, worker>>

\* ------------------------------------------------------------------------
\* File names.  A name is a sequence of units: Ws, single punctuation marks,
\* and words of letters and digits.
\* ------------------------------------------------------------------------
UnsafeUnits == {"@", "/", "#"}

DefaultBase == <<"conversation", "-", "export">>

\* the day and the time of day of the export, colons already replaced
ExportDay == <<"2026", "-", "11", "-", "01">>

ExportTime == <<"12", "-", "30", "-", "00">>

\* .replace(/\s+/g, '-')
RECURSIVE replaceWhitespaceRuns(_)
replaceWhitespaceRuns(name) ==
    IF name = <<>> THEN <<>>
    ELSE IF Head(name) # Ws THEN <<Head(name)>> \o replaceWhitespaceRuns(Tail(name))
    ELSE IF Len(name) > 1 /\ name[2] = Ws THEN replaceWhitespaceRuns(Tail(name))
    ELSE <<"-">> \o replaceWhitespaceRuns(Tail(name))

\* .replace(/[^a-zA-Z0-9._-]/g, '-')
replaceUnsafe(name) ==
    [i \in 1..Len(name) |-> IF name[i] \in UnsafeUnits \cup {Ws} THEN "-" ELSE name[i]]

\* .replace(/-+/g, '-')
RECURSIVE collapseDashes(_)
collapseDashes(name) ==
    IF Len(name) < 2 THEN name
    ELSE IF name[1] = "-" /\ name[2] = "-" THEN collapseDashes(Tail(name))
    ELSE <<Head(name)>> \o collapseDashes(Tail(name))

\* .replace(/^-|-$/g, '')
stripEdgeDash(name) ==
    LET front(rest) == IF rest # <<>> /\ rest[Len(rest)] = "-"
                       THEN SubSeq(rest, 1, Len(rest) - 1) ELSE rest
    IN front(IF name # <<>> /\ Head(name) = "-" THEN Tail(name) ELSE name)

\* .replace(/^[-_.]+|[-_.]+$/g, '')
RECURSIVE stripEdgeMarks(_)
stripEdgeMarks(name) ==
    IF name # <<>> /\ Head(name) \in {"-", "_", "."} THEN stripEdgeMarks(Tail(name))
    ELSE IF name # <<>> /\ name[Len(name)] \in {"-", "_", "."}
    THEN stripEdgeMarks(SubSeq(name, 1, Len(name) - 1))
    ELSE name

sanitizeFilenameBase(value) ==
    stripEdgeMarks(collapseDashes(replaceUnsafe(replaceWhitespaceRuns(trim(value)))))

getConversationTitleBase(data) ==
    LET sanitized(base) == IF base # <<>> THEN base ELSE DefaultBase
    IN sanitized(sanitizeFilenameBase(data.metadata.title))

scopeLabel(label) ==
    Flatten([i \in 1..Len(label) |->
                IF i = 1 THEN <<label[i]>> ELSE <<"-", ToString(label[i])>>])

extensionOf(format) ==
    CASE format = "markdown" -> "md"
      [] format = "graph" -> "graph.json"
      [] format = "memorypack" -> "memorypack.json"
      [] format = "research" -> "research.json"
      [] format \in {"pdf", "docx", "json", "csv", "html", "txt"} -> format
      [] OTHER -> "txt"

\* getFilename, with the fields getExportOptions reads from the form:
\* options.filename and options.filenameTemplate are the two inputs, empty
\* when left blank
getFilename(format, options, data) ==
    LET named(base, template) ==
            LET filled ==
                    Flatten([i \in 1..Len(template) |->
                                CASE template[i] = "{base}" -> base
                                  [] template[i] = "{platform}" -> <<data.metadata.platform>>
                                  [] template[i] = "{date}" -> ExportDay
                                  [] template[i] = "{time}" -> ExportTime
                                  [] template[i] = "{scope}" ->
                                         scopeLabel(resolveMessageRange(
                                             options, Max(1, Len(data.messages))).label)
                                  [] OTHER -> <<template[i]>>])
                fallback(coreName) == IF coreName # <<>> THEN coreName ELSE base
            IN fallback(stripEdgeDash(collapseDashes(replaceUnsafe(replaceWhitespaceRuns(filled)))))
                   \o <<".", extensionOf(format)>>
        trimmed(base) == IF trim(base) # <<>> THEN trim(base) ELSE DefaultBase
    IN named(trimmed(IF options.filename # <<>> THEN options.filename
                     ELSE getConversationTitleBase(data)),
             IF options.filenameTemplate # <<>> THEN options.filenameTemplate
             ELSE <<"{base}">>)

\* exportFormat: analyze when nothing was analyzed yet, normalize, generate,
\* download; any error ends the handler with a message and without a download.
ExportFormat(format, options, libs) ==
    \E source \in {IF exportData = Null THEN analyzed(page, exportData).exportData
                   ELSE exportData} :
    \E checked \in {normalizeAndValidateExportData(source)} :
        IF source = Null
        THEN /\ status' = [op |-> "export", format |-> format,
                           error |-> "No export data available"]
             /\ UNCHANGED <<page, exportData, artifact, watcher, browser, worker>>
        ELSE IF checked.threw
        THEN /\ exportData' = checked.data
             /\ status' = [op |-> "export", format |-> format,
                           error |-> "No messages found to export"]
             /\ UNCHANGED <<page, artifact, watcher, browser, worker>>
        ELSE \E generated \in {generateFormat(checked.data, format, options, libs)} :
             /\ exportData' = generated.exportData
             /\ status' = [op |-> "export", format |-> format, error |-> generated.error]
             /\ artifact' = IF generated.out = Null THEN artifact
                            ELSE [format |-> format, options |-> options,
                                  kind |-> generated.out.kind,
                                  units |-> generated.out.units,
                                  doc |-> generated.out.doc,
                                  graph |-> generated.out.graph,
                                  canonical |-> generated.out.canonical,
                                  research |-> generated.out.research,
                                  filename |-> getFilename(format, options,
                                                           generated.exportData)]
             /\ UNCHANGED <<page, watcher, browser, worker>>

\* ------------------------------------------------------------------------
\* Pages and form inputs explored
\* ------------------------------------------------------------------------
MaxTurns == 2

element(summary, body) ==
    [summary |-> summary, body |-> body, hint |-> <<>>, tag |-> "DETAILS", rich |-> FALSE]

UserPlain ==
    [role |-> "user", text |-> <<"hello", Ws, "world">>, blocks |-> <<>>, refs |-> NoRefs]

UserSecret ==
    [role |-> "user",
     text |-> <<Ws, "EMAIL", Ws, "PHONE", Ws, "SKTOKEN">>,
     blocks |-> <<>>,
     refs |-> [NoRefs EXCEPT
                  !.attachments = <<[name |-> <<"FILE.pdf">>,
                                     url |-> <<"https://host", "/private">>,
                                     type |-> "pdf"]>>]]

UserCredential ==
    [role |-> "user",
     text |-> <<"token=", "EMAIL", ",", "PHONE", ",", "SKTOKEN">>,
     blocks |-> <<>>, refs |-> NoRefs]

AssistantTrace ==
    [role |-> "assistant",
     text |-> <<"answer", Ws>>,
     blocks |-> <<element(<<"Ran", Ws, "ls">>, <<"Output", Ws, "EMAIL">>),
                  element(<<"plan">>, <<>>)>>,
     refs |-> [NoRefs EXCEPT
                  !.links = <<[title |-> <<"paper">>, url |-> <<"https://host", "/doc">>]>>,
                  !.citations = <<[text |-> <<"see", Ws, "PHONE">>, url |-> <<>>]>>]]

AssistantSilent ==
    [role |-> "assistant", text |-> <<Ws>>,
     blocks |-> <<element(<<"Ran", Ws, "ls">>, <<"Output", Ws, "EMAIL">>)>>,
     refs |-> NoRefs]

UserBlank == [role |-> "user", text |-> <<Ws>>, blocks |-> <<>>, refs |-> NoRefs]

\* Conversations grow along fixed scripts; a page shows the first turns of one.
Scripts ==
    {<<UserSecret, AssistantTrace>>,
     <<UserBlank>>,
     <<UserCredential, AssistantSilent>>,
     <<AssistantTrace>>,
     <<UserPlain>>,
     <<AssistantSilent, UserSecret, UserBlank>>}

cycle(script, n) == [k \in 1..n |-> script[((k - 1) % Len(script)) + 1]]

Platforms == {"claude", "chatgpt", "generic"}

Pages ==
    {[platform |-> pf, title |-> <<"chat">>, turns |-> cycle(script, n), stray |-> <<>>] :
        pf \in Platforms, script \in Scripts, n \in 1..MaxTurns}

DefaultOptions ==
    [scope |-> "all", scopeStart |-> 0, scopeEnd |-> 0, includeThinking |-> TRUE,
     includeMetadata |-> TRUE, includeHtml |-> TRUE, redactSensitive |-> FALSE,
     filename |-> <<>>, filenameTemplate |-> <<>>]

OptionSet ==
    {DefaultOptions,
     [DefaultOptions EXCEPT !.redactSensitive = TRUE],
     [DefaultOptions EXCEPT !.scope = "single", !.scopeStart = 1, !.redactSensitive = TRUE,
                            !.includeThinking = FALSE, !.includeMetadata = FALSE,
                            !.includeHtml = FALSE],
     [DefaultOptions EXCEPT !.scope = "range", !.scopeStart = 2, !.scopeEnd = 1]}

AllLibs == [jspdf |-> TRUE, docx |-> TRUE]

NoLibs == [jspdf |-> FALSE, docx |-> FALSE]

Idle == [op |-> "init", format |-> "", error |-> NoError]

Init ==
    /\ page \in Pages
    /\ exportData = Null
    /\ artifact = Null
    /\ status = Idle
    /\ watcher = Null
    /\ browser = Null
    /\ worker = Null

Export ==
    \E format \in Formats, options \in OptionSet, libs \in {AllLibs, NoLibs} :
        /\ format \notin {"pdf", "docx"} => libs = AllLibs
        /\ ExportFormat(format, options, libs)

Next == AnalyzeConversation \/ Export

Spec == Init /\ [][Next]_vars

\* ------------------------------------------------------------------------
\* Properties of the export session
\* ------------------------------------------------------------------------
SensitiveUnits == {"EMAIL", "PHONE", "SKTOKEN"}

MarkerUnits == {"[REDACTED_EMAIL]", "[REDACTED_PHONE]", "[REDACTED_TOKEN]",
                "[REDACTED_CREDENTIAL]", "[REDACTED_FILE]", "[REDACTED_FILE].pdf",
                "/[REDACTED_PATH]"}

survivors(units) == {i \in 1..Len(units) : units[i] \in SensitiveUnits}

markerCount(units) == Cardinality({i \in 1..Len(units) : units[i] \in MarkerUnits})

\* the messages of the session's document an export with the artifact's options covers
exportedSource ==
    scopedDocument(exportData, artifact.options).messages

hasAllThree(text) == SensitiveUnits \subseteq Range(text)

\* C1: an export (any format, any options) run on a session that holds a
\* document leaves that document exactly as it was before the call.
C1_ExportLeavesCanonical ==
    [][(exportData # Null /\ status'.op = "export") => exportData' = exportData]_vars

\* a scoped, redacted JSON export without thinking blocks was produced while
\* the session's document still holds every message and its blocks
C1_Witness ==
    /\ artifact # Null
    /\ artifact.format = "json"
    /\ artifact.options.redactSensitive
    /\ ~artifact.options.includeThinking
    /\ artifact.doc.thinkingBlocks = <<>>
    /\ exportData.thinkingBlocks # <<>>
    /\ Len(artifact.doc.messages) < Len(exportData.messages)

\* C3: a session whose document has no message after normalization has
\* produced no artifact, and the handler that found it ended with an error.
C3_NoArtifactWithoutMessages ==
    (exportData # Null /\ exportData.messages = <<>>)
        => (artifact = Null /\ status.error = "No messages found to export")

\* an export was requested on a document without messages
C3_Witness ==
    /\ exportData # Null
    /\ exportData.messages = <<>>
    /\ status.op = "export"
    /\ artifact = Null

\* C4 as stated: a redacted JSON export of a message holding an e-mail
\* address, a phone number and an sk- token contains none of the three and
\* at least three redaction markers.
C4_RedactedJsonComplete ==
    (/\ artifact # Null
     /\ artifact.format = "json"
     /\ artifact.options.redactSensitive
     /\ \E k \in 1..Len(exportedSource) : hasAllThree(exportedSource[k].content))
        => (survivors(artifact.units) = {} /\ markerCount(artifact.units) >= 3)

\* C5 as stated: no sensitive unit survives in a redacted artifact of any format.
C5_RedactionUniform ==
    (artifact # Null /\ artifact.options.redactSensitive)
        => survivors(artifact.units) = {}

\* ------------------------------------------------------------------------
\* Scoped exports of longer conversations
\* ------------------------------------------------------------------------
MaxScopeTurns == 6

AssistantCited ==
    [role |-> "assistant", text |-> <<"reply">>, blocks |-> <<>>,
     refs |-> [NoRefs EXCEPT
                  !.documents = <<[name |-> <<"notes">>, url |-> <<>>, type |-> "md"]>>]]

ScopeScript == <<UserSecret, AssistantTrace, UserPlain, AssistantCited, UserPlain,
                 AssistantSilent>>

ScopePages ==
    {[platform |-> "claude", title |-> <<"chat">>, turns |-> cycle(ScopeScript, n),
      stray |-> <<>>] : n \in 1..MaxScopeTurns}

ScopeOptions ==
    {[DefaultOptions EXCEPT !.scope = scope, !.scopeStart = start, !.scopeEnd = end] :
        scope \in {"all", "single", "range"},
        start \in 0..MaxScopeTurns, end \in 0..MaxScopeTurns}

InitScope ==
    /\ page \in ScopePages
    /\ exportData = Null
    /\ artifact = Null
    /\ status = Idle
    /\ watcher = Null
    /\ browser = Null
    /\ worker = Null

ExportScoped ==
    \E options \in ScopeOptions :
        /\ options.scope = "all" => (options.scopeStart = 0 /\ options.scopeEnd = 0)
        /\ options.scope = "single" => options.scopeEnd = 0
        /\ ExportFormat("json", options, AllLibs)

NextScope == AnalyzeConversation \/ ExportScoped

SpecScope == InitScope /\ [][NextScope]_vars

blocksOf(messages) == Flatten([k \in 1..Len(messages) |-> messages[k].thinkingBlocks])

clampIndex(value, total) == Min(total, Max(1, value))

\* the messages whose 1-based index is in [lo, hi]
messagesBetween(messages, lo, hi) ==
    SelectSeq([k \in 1..Len(messages) |-> [index |-> k, message |-> messages[k]]],
              LAMBDA e : lo <= e.index /\ e.index <= hi)

exportedIndexes(lo, hi) ==
    LET kept == messagesBetween(exportData.messages, lo, hi)
    IN artifact.doc.messages = [k \in 1..Len(kept) |-> kept[k].message]

givenStart == IF artifact.options.scopeStart > 0 THEN artifact.options.scopeStart ELSE 1

givenEnd ==
    IF artifact.options.scopeEnd > 0 THEN artifact.options.scopeEnd
    ELSE Len(exportData.messages)

\* C7 as stated: a range export holds the messages between the two clamped
\* bounds taken in increasing order, so a reversed pair selects what the
\* ordered pair selects.
C7_RangeAutoOrdered ==
    (artifact # Null /\ artifact.options.scope = "range") =>
        LET total == Len(exportData.messages)
            a == clampIndex(givenStart, total)
            b == clampIndex(givenEnd, total)
        IN exportedIndexes(Min(a, b), Max(a, b))

\* C7 amended: a range export holds the messages from the clamped start to
\* the clamped end, and an end below the start is raised to the start, so a
\* reversed pair selects the single message at the clamped start.
C7_RangeClamped ==
    (artifact # Null /\ artifact.options.scope = "range") =>
        LET total == Len(exportData.messages)
            a == clampIndex(givenStart, total)
            b == clampIndex(givenEnd, total)
        IN exportedIndexes(a, IF b < a THEN a ELSE b)

\* range(4,2) of a conversation of at least four messages exported message 4 alone
C7_Witness ==
    /\ artifact # Null
    /\ artifact.options.scope = "range"
    /\ artifact.options.scopeStart = 4
    /\ artifact.options.scopeEnd = 2
    /\ Len(exportData.messages) >= 4
    /\ artifact.doc.messages = <<exportData.messages[4]>>

\* ------------------------------------------------------------------------
\* Normalization of extracted documents
\* ------------------------------------------------------------------------
\* normalizeAndValidateExportData called on the session's document
NormalizeAndValidate ==
    \E result \in {normalizeAndValidateExportData(exportData)} :
    /\ exportData' = result.data
    /\ status' = [op |-> "normalize", format |-> "",
                  error |-> IF exportData = Null THEN "No export data available"
                            ELSE IF result.threw THEN "No messages found to export"
                            ELSE NoError]
    /\ UNCHANGED <<page, artifact, watcher, browser, worker>>

assistant(text, blocks) ==
    [role |-> "assistant", text |-> text, blocks |-> blocks, refs |-> NoRefs]

RanLs == element(<<"Ran", Ws, "ls">>, <<Ws, "Output", Ws, "ok">>)

PlanOnly == element(<<"plan">>, <<>>)

\* equal up to the 500th unit, different before the 600th
LongA == element(<<"plan">>, Rep("x", SignaturePrefix - 50) \o <<"a">>)

LongB == element(<<"plan">>, Rep("x", SignaturePrefix - 50) \o <<"b">>)

\* equal up to the 600th unit; the second one shows tool output after it
LongThinking == element(<<"plan">>, Rep("x", SignaturePrefix + 50))

LongTool == element(<<"plan">>, Rep("x", SignaturePrefix + 50) \o <<Ws, "Output", Ws, "ok">>)

NormScripts ==
    {<<[UserPlain EXCEPT !.text = <<Ws, "hello", Ws>>], assistant(<<"answer">>, <<RanLs, RanLs, PlanOnly>>)>>,
     <<assistant(<<"answer">>, <<LongA, LongB>>)>>,
     <<assistant(<<"answer">>, <<LongThinking, LongTool>>)>>,
     <<assistant(<<"answer">>, <<LongTool, LongThinking>>)>>,
     <<assistant(<<"one">>, <<element(<<"reason">>, <<"step">>)>>),
       assistant(<<"two">>, <<element(<<"tool">>, <<"step">>)>>)>>,
     <<AssistantSilent, UserPlain>>,
     <<assistant(<<"answer">>, <<RanLs>>)>>,
     <<UserPlain>>,
     <<UserBlank>>}

StrayElements == {<<>>, <<element(<<>>, <<"note">>)>>}

NormPages ==
    {[platform |-> pf, title |-> <<"chat">>, turns |-> cycle(script, n), stray |-> stray] :
        pf \in Platforms, script \in NormScripts, n \in 1..MaxTurns, stray \in StrayElements}

InitNorm ==
    /\ page \in NormPages
    /\ exportData = Null
    /\ artifact = Null
    /\ status = Idle
    /\ watcher = Null
    /\ browser = Null
    /\ worker = Null

NextNorm == AnalyzeConversation \/ NormalizeAndValidate

SpecNorm == InitNorm /\ [][NextNorm]_vars

\* the document the extractor hands to the session, before any normalization
extracted == extractConversation(page).data

aggregateOf(doc) == doc.thinkingBlocks \o blocksOf(doc.messages)

prefixSignature(block, n) ==
    trim(block.summary) \o <<"|">> \o slice(trim(block.content), n)

\* C2: normalizing the session's document, which has been normalized when it
\* was analyzed, changes nothing in it.
C2_NormalizeIdempotent ==
    exportData # Null => normalizeDocument(exportData) = exportData

\* a document the first normalization did change was normalized a second time
C2_Witness ==
    /\ exportData # Null
    /\ status.op = "normalize"
    /\ exportData.thinkingBlocks # <<>>
    /\ exportData # extracted
    /\ Len(aggregateOf(extracted)) > Len(exportData.thinkingBlocks)

\* C8 as stated: of two extracted blocks with the same summary and the same
\* first 500 units of content but different priorities, exactly one is kept
\* in the flat list and it carries the type of higher priority.
C8_HigherPriorityWins ==
    exportData # Null =>
        \A i, j \in 1..Len(aggregateOf(extracted)) :
            LET a == aggregateOf(extracted)[i]
                b == aggregateOf(extracted)[j]
                kept == {k \in 1..Len(exportData.thinkingBlocks) :
                            prefixSignature(exportData.thinkingBlocks[k], 500) =
                                prefixSignature(a, 500)}
            IN (/\ prefixSignature(a, 500) = prefixSignature(b, 500)
                /\ priority(typeOf(a)) > priority(typeOf(b))
                /\ priority(typeOf(b)) > 0)
                   => (/\ Cardinality(kept) = 1
                       /\ \A k \in kept : exportData.thinkingBlocks[k].type = typeOf(a))

\* the message-level blocks whose signature is that of the flat element f
counterparts(f) ==
    {<<k, j>> \in (1..Len(exportData.messages)) \X (1..3) :
        /\ j <= Len(exportData.messages[k].thinkingBlocks)
        /\ prefixSignature(exportData.messages[k].thinkingBlocks[j], SignaturePrefix) =
               prefixSignature(f, SignaturePrefix)}

\* C9 as stated: every flat element has exactly one message-level counterpart.
C9_ExactlyOneCounterpart ==
    exportData # Null =>
        \A n \in 1..Len(exportData.thinkingBlocks) :
            Cardinality(counterparts(exportData.thinkingBlocks[n])) = 1

\* C9 amended: every message-level block has an element of the flat list with
\* its signature (trimmed summary, '|', first 600 units of trimmed content);
\* a flat element may have no message-level counterpart, or several.
C9_MessageBlocksCovered ==
    exportData # Null =>
        \A k \in 1..Len(exportData.messages) :
            \A j \in 1..Len(exportData.messages[k].thinkingBlocks) :
                \E n \in 1..Len(exportData.thinkingBlocks) :
                    prefixSignature(exportData.thinkingBlocks[n], SignaturePrefix) =
                        prefixSignature(exportData.messages[k].thinkingBlocks[j],
                                        SignaturePrefix)

\* a normalized document whose messages carry blocks and in which one flat
\* element stands for equal blocks of two messages
C9_Witness ==
    /\ exportData # Null
    /\ Len(exportData.messages) = 2
    /\ \E n \in 1..Len(exportData.thinkingBlocks) :
           Cardinality(counterparts(exportData.thinkingBlocks[n])) = 2
    /\ \A k \in 1..Len(exportData.messages) : exportData.messages[k].thinkingBlocks # <<>>

distinctSignatures(n) ==
    \A i, j \in 1..Len(exportData.thinkingBlocks) :
        i # j => prefixSignature(exportData.thinkingBlocks[i], n) #
                     prefixSignature(exportData.thinkingBlocks[j], n)

\* C10 as stated: no two flat elements share summary + '|' + content[:500].
C10_DistinctAt500 == exportData # Null => distinctSignatures(500)

\* C10 amended: no two flat elements share their trimmed summary followed by
\* '|' and the first 600 units of their trimmed content.
C10_DistinctAt600 == exportData # Null => distinctSignatures(600)

\* two extracted blocks of different content that agree on their first 600
\* units were merged into one flat element
C10_Witness ==
    /\ exportData # Null
    /\ \E i, j \in 1..Len(aggregateOf(extracted)) :
           /\ aggregateOf(extracted)[i].content # aggregateOf(extracted)[j].content
           /\ Len(aggregateOf(extracted)[i].content) > 600
           /\ prefixSignature(aggregateOf(extracted)[i], 600) =
                  prefixSignature(aggregateOf(extracted)[j], 600)
           /\ Cardinality({n \in 1..Len(exportData.thinkingBlocks) :
                              prefixSignature(exportData.thinkingBlocks[n], 600) =
                                  prefixSignature(aggregateOf(extracted)[i], 600)}) = 1

\* ------------------------------------------------------------------------
\* Counts of normalized items
\* ------------------------------------------------------------------------
countsFromContent(item) ==
    /\ item.wordCount = wordCountFiltered(item.content)
    /\ item.characterCount = Len(item.content)

\* C11 as stated: after normalization the word count and the character count
\* of every message, of every flat block and of every message-level block
\* are the ones computed from the item's content.
C11_CountsRecomputed ==
    exportData # Null =>
        /\ \A k \in 1..Len(exportData.messages) : countsFromContent(exportData.messages[k])
        /\ \A n \in 1..Len(exportData.thinkingBlocks) :
               countsFromContent(exportData.thinkingBlocks[n])
        /\ \A n \in 1..Len(blocksOf(exportData.messages)) :
               countsFromContent(blocksOf(exportData.messages)[n])

\* ------------------------------------------------------------------------
\* Structured exports (JSON, Graph JSON, Memory Pack) under every
\* combination of the include-thinking and include-metadata check boxes
\* ------------------------------------------------------------------------
StructuredFormats == {"json", "graph", "memorypack"}

StructuredScripts ==
    {<<UserSecret, AssistantTrace>>,
     <<UserPlain, AssistantSilent, UserSecret>>,
     <<UserPlain, assistant(<<"answer">>, <<RanLs, PlanOnly>>), UserPlain, AssistantCited>>,
     <<UserPlain, UserPlain, UserBlank, AssistantTrace, UserSecret>>}

StructuredPages ==
    {[platform |-> pf, title |-> <<"chat">>, turns |-> script, stray |-> <<>>] :
        pf \in Platforms, script \in StructuredScripts}

StructuredOptions ==
    {[DefaultOptions EXCEPT !.includeThinking = thinking, !.includeMetadata = metadata,
                            !.redactSensitive = redact, !.scope = scope,
                            !.scopeStart = 2, !.scopeEnd = 3] :
        thinking \in BOOLEAN, metadata \in BOOLEAN, redact \in BOOLEAN,
        scope \in {"all", "single", "range"}}

InitStructured ==
    /\ page \in StructuredPages
    /\ exportData = Null
    /\ artifact = Null
    /\ status = Idle
    /\ watcher = Null
    /\ browser = Null
    /\ worker = Null

ExportStructured ==
    \E format \in StructuredFormats, options \in StructuredOptions :
        ExportFormat(format, options, AllLibs)

NextStructured == AnalyzeConversation \/ ExportStructured

SpecStructured == InitStructured /\ [][NextStructured]_vars

\* C12 as stated: the block type breakdown in the metadata of a JSON export
\* is the per-type tally of the thinkingBlocks array of that export.
C12_BreakdownMatchesBlocks ==
    (artifact # Null /\ artifact.format = "json" /\ artifact.options.includeMetadata)
        => artifact.doc.metadata.blockTypeBreakdown =
               tallyBlockTypes(artifact.doc.thinkingBlocks)

\* ------------------------------------------------------------------------
\* Order of the messages
\* ------------------------------------------------------------------------
\* the turns of the page in DOM order, as (id, author) pairs: every extractor
\* names a message after the index of its turn
turnKeys == [k \in 1..Len(page.turns) |-> <<<<"msg", k - 1>>, page.turns[k].role>>]

messageKeys(messages) == [k \in 1..Len(messages) |-> <<messages[k].id, messages[k].author>>]

RECURSIVE isSubsequence(_, _)
isSubsequence(part, whole) ==
    IF part = <<>> THEN TRUE
    ELSE IF whole = <<>> THEN FALSE
    ELSE IF Head(part) = Head(whole) THEN isSubsequence(Tail(part), Tail(whole))
    ELSE isSubsequence(part, Tail(whole))

\* C13: the messages of the session's document and of every artifact are
\* messages of the page's turns, each at most once, in the order of the turns.
C13_OrderPreserved ==
    /\ exportData # Null => isSubsequence(messageKeys(exportData.messages), turnKeys)
    /\ artifact # Null => isSubsequence(messageKeys(artifact.doc.messages), turnKeys)

\* a redacted range export of two messages from a page where a repeated turn
\* and a blank turn were dropped before
C13_Witness ==
    /\ artifact # Null
    /\ artifact.options.scope = "range"
    /\ artifact.options.redactSensitive
    /\ Len(artifact.doc.messages) = 2
    /\ Len(exportData.messages) + 2 = Len(page.turns)
    /\ artifact.doc.messages[1].id # exportData.messages[1].id

\* ------------------------------------------------------------------------
\* Consecutive duplicate messages
\* ------------------------------------------------------------------------
noConsecutiveDuplicates(messages) ==
    \A k \in 1..(Len(messages) - 1) :
        messageSignature(messages[k]) # messageSignature(messages[k + 1])

\* C14 as stated: in the document an artifact was rendered from, no two
\* consecutive messages have the same (author, content prefix) signature.
C14_NoConsecutiveDuplicates ==
    artifact # Null => noConsecutiveDuplicates(artifact.doc.messages)

\* ------------------------------------------------------------------------
\* PDF exports
\* ------------------------------------------------------------------------
PdfWarning == "PDF generation failed, exported as HTML instead"

nodeIds(graph) == {graph.nodes[n].id : n \in 1..Len(graph.nodes)}

edgeSet(graph) == Range(graph.edges)

\* the output of exporting the session's document once more, same format and options
exportedAgain == generateFormat(exportData, artifact.format, artifact.options, AllLibs).out

sameDocumentAs(format) == generateFormat(exportData, format, artifact.options, AllLibs).out

\* C17: right after a Memory Pack export, its graph section has the nodes and
\* edges of the Graph JSON export of the same document and options, and its
\* canonical messages and blocks are those of the scoped and redacted
\* document the HTML export renders, with at least one message.
C17_MemoryPackBundles ==
    (/\ artifact # Null
     /\ status.op = "export"
     /\ status.format = "memorypack"
     /\ status.error = NoError)
        => /\ artifact.graph = sameDocumentAs("graph").graph
           /\ artifact.canonical.messages = sameDocumentAs("html").doc.messages
           /\ artifact.canonical.thinkingBlocks = sameDocumentAs("html").doc.thinkingBlocks
           /\ artifact.canonical.messages # <<>>

\* a Memory Pack of a redacted part of a longer conversation, with traces
C17_Witness ==
    /\ artifact # Null
    /\ status.op = "export"
    /\ status.format = "memorypack"
    /\ status.error = NoError
    /\ artifact.options.redactSensitive
    /\ artifact.options.scope = "range"
    /\ Len(artifact.canonical.messages) < Len(exportData.messages)
    /\ artifact.canonical.thinkingBlocks # <<>>
    /\ Len(artifact.graph.nodes) > Len(artifact.canonical.messages) + 1
    /\ \E k \in 1..Len(artifact.canonical.messages) :
           "[REDACTED_EMAIL]" \in Range(artifact.canonical.messages[k].content)

\* ------------------------------------------------------------------------
\* Selectors of the platform configuration (UniversalExtractor)
\* ------------------------------------------------------------------------
\* a selector string: one that matches the elements it is written for, one
\* that matches nothing, one that is not a CSS selector, and the empty string
Matching == "matching"

NoMatch == "nomatch"

Invalid == "invalid"

Unset == ""

isValidSelector(selector) == selector # Unset

\* safeQuerySelectorAll / safeQuerySelector: the SyntaxError is caught
safeQuerySelectorAll(selector, found) == IF selector = Matching THEN found ELSE <<>>

SelectorSyntaxError == "SyntaxError: not a valid selector"

ContainerNotFound == "Conversation container not found"

NoMessagesFound == "No messages found during extraction"

\* stands for the exception leaving the call
Thrown == "thrown"

\* determineAuthor: Element.matches is called outside any try block
determineAuthor(turn, selectors, roleAttributes) ==
    IF selectors.userMessages = Invalid THEN Thrown
    ELSE IF selectors.userMessages = Matching /\ turn.role = "user" THEN "user"
    ELSE IF selectors.assistantMessages = Invalid THEN Thrown
    ELSE IF selectors.assistantMessages = Matching /\ turn.role = "assistant" THEN "assistant"
    ELSE IF roleAttributes THEN turn.role
    ELSE "assistant"

\* the elements the comma-separated thinkingBlocks selectors find, part by part
thinkingElements(parts, found) ==
    IF \E p \in 1..Len(parts) : parts[p] = Matching THEN found ELSE <<>>

\* the page as the configured selectors show it
discovered(pg) ==
    [pg EXCEPT
        !.turns = [k \in 1..Len(safeQuerySelectorAll(pg.selectors.messages, pg.turns)) |->
                      [pg.turns[k] EXCEPT
                          !.role = determineAuthor(pg.turns[k], pg.selectors, pg.roleAttributes),
                          !.blocks = thinkingElements(pg.selectors.thinkingBlocks, @)]],
        !.stray = thinkingElements(pg.selectors.thinkingBlocks, @)]

\* UniversalExtractor.extractConversation with the page's selector configuration
extractWithSelectors(pg) ==
    LET visited(seen) ==
            IF seen.turns = <<>> THEN [data |-> Null, threw |-> TRUE, error |-> NoMessagesFound]
            ELSE IF \E k \in 1..Len(seen.turns) :
                        trim(seen.turns[k].text) # <<>> /\ seen.turns[k].role = Thrown
            THEN [data |-> Null, threw |-> TRUE, error |-> SelectorSyntaxError]
            ELSE [data |-> [universalExtractConversation(seen).data EXCEPT
                               !.rawHtml = emptyDocument(pg).rawHtml],
                  threw |-> FALSE, error |-> NoError]
    IN IF pg.selectors.conversation # Matching
       THEN [data |-> Null, threw |-> TRUE, error |-> ContainerNotFound]
       ELSE visited(discovered(pg))

\* analyzeConversation on a page of a platform without its own extractor
analyzedWithSelectors(pg, previous) ==
    LET checked(normalized) ==
            [exportData |-> normalized.data,
             error |-> IF normalized.threw THEN "No messages found to export" ELSE NoError]
        caught(outcome) ==
            IF outcome.threw
            THEN [exportData |-> previous, error |-> outcome.error]
            ELSE checked(normalizeAndValidateExportData(outcome.data))
    IN caught(extractWithSelectors(pg))

SelectorValues == {Matching, NoMatch, Invalid, Unset}

ThinkingSelectorLists ==
    {<<>>, <<Matching>>, <<Invalid>>, <<Invalid, Matching>>, <<Matching, Invalid>>}

SelectorConfigs ==
    {[conversation |-> c, messages |-> m, userMessages |-> u, assistantMessages |-> a,
      thinkingBlocks |-> t] :
        c \in SelectorValues, m \in SelectorValues, u \in SelectorValues,
        a \in SelectorValues, t \in ThinkingSelectorLists}

SelectorScripts == {<<UserPlain, AssistantTrace>>, <<UserBlank, AssistantSilent, UserSecret>>}

SelectorPages ==
    {[platform |-> "generic", title |-> <<"chat">>, turns |-> script, stray |-> <<>>,
      selectors |-> selectors, roleAttributes |-> attributes] :
        script \in SelectorScripts, selectors \in SelectorConfigs, attributes \in BOOLEAN}

InitSelectors ==
    /\ page \in SelectorPages
    /\ exportData = Null
    /\ artifact = Null
    /\ status = Idle
    /\ watcher = Null
    /\ browser = Null
    /\ worker = Null

AnalyzeWithSelectors ==
    \E result \in {analyzedWithSelectors(page, exportData)} :
    /\ exportData' = result.exportData
    /\ status' = [op |-> "analyze", format |-> "", error |-> result.error]
    /\ UNCHANGED <<page, artifact, watcher, browser, worker>>

NextSelectors == AnalyzeWithSelectors

SpecSelectors == InitSelectors /\ [][NextSelectors]_vars

invalidCount(selectors) ==
    Cardinality({f \in {"conversation", "messages", "userMessages", "assistantMessages"} :
                    selectors[f] = Invalid}) +
    Cardinality({p \in 1..Len(selectors.thinkingBlocks) : selectors.thinkingBlocks[p] = Invalid})

\* the configuration with every invalid selector replaced by one that matches nothing
asNoMatch(selectors) ==
    [f \in DOMAIN selectors |->
        IF f = "thinkingBlocks"
        THEN [p \in 1..Len(selectors[f]) |->
                 IF selectors[f][p] = Invalid THEN NoMatch ELSE selectors[f][p]]
        ELSE IF selectors[f] = Invalid THEN NoMatch ELSE selectors[f]]

\* C18 as stated: with one invalid selector in the configuration, analysis
\* ends as it does when that selector is valid and matches nothing, and the
\* selector's syntax error is never what ends it.
C18_InvalidSelectorIsNoMatch ==
    (status.op = "analyze" /\ invalidCount(page.selectors) = 1)
        => /\ status.error # SelectorSyntaxError
           /\ [exportData |-> exportData, error |-> status.error] =
                  analyzedWithSelectors([page EXCEPT !.selectors = asNoMatch(@)], Null)

\* ------------------------------------------------------------------------
\* Expansion of collapsed traces before extraction
\* ------------------------------------------------------------------------
\* the methods expandElement tries in order: set open, click, click the inner
\* button, open the inner toggle, set aria-expanded, dispatch a click event
NumMethods == 6

Methods == 1..NumMethods

\* what a method does to a toggle when called: nothing visible, expands it, or throws
MethodOutcomes == {"none", "expands", "throws"}

\* the toggle reads as expanded after method m completed
visiblyExpanded(toggle, m) ==
    toggle.expanded \/ \E j \in 1..m : toggle.outcomes[j] = "expands"

\* expandElement with the try block around the whole loop: the first error ends it
RECURSIVE expandElementUncaught(_, _, _)
expandElementUncaught(toggle, m, attempted) ==
    IF m > NumMethods THEN attempted
    ELSE IF toggle.outcomes[m] = "throws" THEN Append(attempted, m)
    ELSE IF visiblyExpanded(toggle, m) THEN Append(attempted, m)
    ELSE expandElementUncaught(toggle, m + 1, Append(attempted, m))

\* UniversalExtractor.expandElement: the methods called on one toggle, in order
RECURSIVE expandElement(_, _, _)
expandElement(toggle, m, attempted) ==
    IF m > NumMethods THEN attempted
    ELSE IF toggle.outcomes[m] = "throws" THEN expandElement(toggle, m + 1, Append(attempted, m))
    ELSE IF visiblyExpanded(toggle, m) THEN Append(attempted, m)
    ELSE expandElement(toggle, m + 1, Append(attempted, m))

\* UniversalExtractor.expandElements: every discovered toggle in turn
expandElements(toggles) == [i \in 1..Len(toggles) |-> expandElement(toggles[i], 1, <<>>)]

\* ClaudeExtractor.expandAllThinkingBlocks: one guarded step per toggle, a
\* click unless the content is measured as not collapsed
expandAllThinkingBlocks(toggles) ==
    [i \in 1..Len(toggles) |->
        IF toggles[i].outcomes[1] = "throws" \/ ~toggles[i].expanded THEN <<1>> ELSE <<>>]

expansionOf(pg) ==
    IF pg.platform = "claude" THEN expandAllThinkingBlocks(pg.toggles)
    ELSE expandElements(pg.toggles)

\* at most one method throws and at most one expands
ToggleOutcomes ==
    {outcomes \in [Methods -> MethodOutcomes] :
        /\ Cardinality({m \in Methods : outcomes[m] = "throws"}) <= 1
        /\ Cardinality({m \in Methods : outcomes[m] = "expands"}) <= 1}

Toggles == {[outcomes |-> outcomes, expanded |-> FALSE] : outcomes \in ToggleOutcomes} \cup
           {[outcomes |-> [m \in Methods |-> "none"], expanded |-> TRUE]}

ToggleBatches == {<<first>> : first \in Toggles} \cup
                 {<<first, second>> : first \in Toggles, second \in Toggles}

ExpandPages ==
    {[platform |-> pf, title |-> <<"chat">>, turns |-> <<UserPlain, AssistantTrace>>,
      stray |-> <<>>, toggles |-> toggles] :
        pf \in {"claude", "generic"}, toggles \in ToggleBatches}

InitExpand ==
    /\ page \in ExpandPages
    /\ exportData = Null
    /\ artifact = Null
    /\ status = Idle
    /\ watcher = Null
    /\ browser = Null
    /\ worker = Null

\* analyzeConversation: the extractor expands the toggles, then extracts
AnalyzeWithExpansion ==
    \E result \in {analyzed(page, exportData)} :
    /\ exportData' = result.exportData
    /\ status' = [op |-> "analyze", format |-> "", error |-> result.error,
                  attempts |-> expansionOf(page)]
    /\ UNCHANGED <<page, artifact, watcher, browser, worker>>

NextExpand == AnalyzeWithExpansion

SpecExpand == InitExpand /\ [][NextExpand]_vars

\* the first method that completes with the toggle expanded, the last method when none does
stopPoint(toggle) ==
    IF \E m \in Methods : toggle.outcomes[m] # "throws" /\ visiblyExpanded(toggle, m)
    THEN CHOOSE m \in Methods :
             /\ toggle.outcomes[m] # "throws" /\ visiblyExpanded(toggle, m)
             /\ \A j \in 1..(m - 1) :
                    toggle.outcomes[j] = "throws" \/ ~visiblyExpanded(toggle, j)
    ELSE NumMethods

\* C19: after analysis every toggle of the batch has been processed, on a
\* generic page each toggle had exactly the methods up to the first one that
\* left it visibly expanded tried on it, whatever threw on the way, and the
\* document was extracted.
C19_ExpansionFaultTolerant ==
    status.op = "analyze"
        => /\ Len(status.attempts) = Len(page.toggles)
           /\ page.platform = "generic" =>
                  \A i \in 1..Len(page.toggles) :
                      status.attempts[i] = [m \in 1..stopPoint(page.toggles[i]) |-> m]
           /\ status.error = NoError
           /\ exportData # Null
           /\ exportData.messages # <<>>

\* a method threw on the first toggle, a later method expanded it, and the
\* second toggle was expanded too
C19_Witness ==
    /\ status.op = "analyze"
    /\ page.platform = "generic"
    /\ Len(page.toggles) = 2
    /\ \E m \in Methods :
           /\ page.toggles[1].outcomes[m] = "throws"
           /\ m + 1 < Len(status.attempts[1])
           /\ Len(status.attempts[1]) < NumMethods
    /\ page.toggles[2].outcomes[2] = "throws"
    /\ Len(status.attempts[2]) = 3
    /\ exportData # Null

\* ------------------------------------------------------------------------
\* Names of the downloaded files
\* ------------------------------------------------------------------------
NameUnits == {"a", Ws, "@", "-"}

\* what the user types into the file name field: up to two units
FilenameInputs ==
    {<<>>} \cup {<<u>> : u \in NameUnits} \cup {<<u, v>> : u \in NameUnits, v \in NameUnits}

FilenameTemplates ==
    {<<>>, <<"{base}", "_", "{date}", Ws, "{time}">>,
     <<"{platform}", "/", "{scope}", "@", "{base}">>, <<"@", Ws>>}

FilenameFormats == {"json", "graph"}

FilenameOptions ==
    {[DefaultOptions EXCEPT !.filename = filename, !.filenameTemplate = template,
                            !.scope = "range", !.scopeStart = 1, !.scopeEnd = 2] :
        filename \in FilenameInputs, template \in FilenameTemplates}

FilenamePages ==
    {[platform |-> "generic", title |-> title, turns |-> <<UserPlain, AssistantTrace>>,
      stray |-> <<>>] :
        title \in {<<"chat">>, <<"@", Ws, "@">>}}

InitFilename ==
    /\ page \in FilenamePages
    /\ exportData = Null
    /\ artifact = Null
    /\ status = Idle
    /\ watcher = Null
    /\ browser = Null
    /\ worker = Null

ExportNamed ==
    \E format \in FilenameFormats, options \in FilenameOptions :
        ExportFormat(format, options, AllLibs)

NextFilename == ExportNamed

SpecFilename == InitFilename /\ [][NextFilename]_vars

\* the name without the dot and the extension getFilename appends
stem(filename) == SubSeq(filename, 1, Len(filename) - 2)

isSafeName(name) == \A i \in 1..Len(name) : name[i] \notin UnsafeUnits \cup {Ws}

\* C20 as stated: the name of every downloaded file is, before its
\* extension, made of safe characters only.
C20_FilenameSafe ==
    artifact # Null => isSafeName(stem(artifact.filename))

\* ------------------------------------------------------------------------
\* Which discovered turns reach the document
\* ------------------------------------------------------------------------
hasTrace(turn) == \E j \in 1..Len(turn.blocks) : trim(elText(turn.blocks[j])) # <<>>

\* the turn discovered at position k is a message of the session's document
keptTurn(k) == \E n \in 1..Len(exportData.messages) : exportData.messages[n].id = <<"msg", k - 1>>

\* the turn repeats the author and text of the turn before it
repeatsPrevious(k) ==
    /\ k > 1
    /\ page.turns[k].role = page.turns[k - 1].role
    /\ collapseWs(trim(page.turns[k].text)) = collapseWs(trim(page.turns[k - 1].text))

\* C21 as stated: a turn is missing from the document exactly when its
\* trimmed text is empty and it has no trace block; a turn with empty text
\* and a trace block is kept.
C21_DroppedIffEmpty ==
    exportData # Null =>
        \A k \in 1..Len(page.turns) :
            /\ (trim(page.turns[k].text) = <<>> /\ ~hasTrace(page.turns[k])) => ~keptTurn(k)
            /\ (trim(page.turns[k].text) = <<>> /\ hasTrace(page.turns[k])) => keptTurn(k)
            /\ (trim(page.turns[k].text) # <<>> /\ ~repeatsPrevious(k)) => keptTurn(k)

\* ------------------------------------------------------------------------
\* Classification of Claude's collapsible blocks
\* ------------------------------------------------------------------------
ClassifySummaries ==
    {<<>>, <<"searched">>, <<"Ran", Ws, "ls">>, <<"prompt">>, <<"+1-1">>, <<"x.js">>,
     <<"notes">>}

ClassifyBodies ==
    {<<"text">>, <<"search results">>, <<"Output">>, <<"system prompt">>,
     <<"+1-1", Ws, "Output">>, <<"FENCE", "a", "FENCE">>, <<"FENCE bash", "a", "FENCE">>}

ClassifyPages ==
    {[platform |-> "claude", title |-> <<"chat">>,
      turns |-> <<assistant(<<"answer">>,
                            <<[element(summary, body) EXCEPT !.rich = rich]>>)>>,
      stray |-> <<>>] :
        summary \in ClassifySummaries, body \in ClassifyBodies, rich \in BOOLEAN}

InitClassify ==
    /\ page \in ClassifyPages
    /\ exportData = Null
    /\ artifact = Null
    /\ status = Idle
    /\ watcher = Null
    /\ browser = Null
    /\ worker = Null

NextClassify == AnalyzeConversation

SpecClassify == InitClassify /\ [][NextClassify]_vars

CategoryOrder == <<"web_search", "tool_call", "prompt_chain", "file_edit", "code">>

\* the earliest category of the order whose condition holds, thinking when none does
firstCategory(content, summary, rich) ==
    IF \E c \in 1..Len(CategoryOrder) : categoryHolds(CategoryOrder[c], content, summary, rich)
    THEN CategoryOrder[CHOOSE c \in 1..Len(CategoryOrder) :
                           /\ categoryHolds(CategoryOrder[c], content, summary, rich)
                           /\ \A b \in 1..(c - 1) :
                                  ~categoryHolds(CategoryOrder[b], content, summary, rich)]
    ELSE "thinking"

\* the number of categories whose condition the block element satisfies
categoriesMet(el) ==
    Cardinality({c \in 1..Len(CategoryOrder) :
                    categoryHolds(CategoryOrder[c], trim(el.body), trim(el.summary), el.rich)})

\* C22: every block of an analyzed Claude turn has the type of the earliest
\* category, in the order web_search, tool_call, prompt_chain, file_edit,
\* code, whose condition its text satisfies, and thinking when none does.
C22_FirstMatchWins ==
    (exportData # Null /\ page.platform = "claude") =>
        \A k \in 1..Len(exportData.messages) :
            \A j \in 1..Len(exportData.messages[k].thinkingBlocks) :
                \E el \in Range(page.turns[exportData.messages[k].id[2] + 1].blocks) :
                    /\ trim(el.summary) = exportData.messages[k].thinkingBlocks[j].summary
                    /\ exportData.messages[k].thinkingBlocks[j].type =
                           firstCategory(trim(el.body), trim(el.summary), el.rich)

\* a block that meets the conditions of three categories was classified
C22_Witness ==
    /\ exportData # Null
    /\ page.platform = "claude"
    /\ Len(exportData.messages) = 1
    /\ Len(exportData.messages[1].thinkingBlocks) = 1
    /\ categoriesMet(page.turns[1].blocks[1]) >= 3
    /\ categoryHolds("tool_call", trim(page.turns[1].blocks[1].body),
                     trim(page.turns[1].blocks[1].summary), page.turns[1].blocks[1].rich)
    /\ exportData.messages[1].thinkingBlocks[1].type = "web_search"

\* C23 as stated: an export with scope = all, no redaction and thinking
\* included renders a document with the messages and the flat
\* thinkingBlocks list of the session's normalized document, and the same
\* block count and breakdown.
C23_ScopeAllIsIdentity ==
    (/\ artifact # Null
     /\ status.op = "export"
     /\ status.error = NoError
     /\ artifact.format = "html"
     /\ artifact.options = DefaultOptions)
        => /\ artifact.doc.messages = exportData.messages
           /\ artifact.doc.thinkingBlocks = exportData.thinkingBlocks
           /\ artifact.doc.metadata.thinkingBlockCount = exportData.metadata.thinkingBlockCount
           /\ artifact.doc.metadata.blockTypeBreakdown = exportData.metadata.blockTypeBreakdown

\* ------------------------------------------------------------------------
\* TurnWatcher: continuous capture of the turns of a conversation page
\* ------------------------------------------------------------------------
\* config.debounceMs and config.minIntervalMs of a watcher built without
\* a configuration, as the auto-start builds it
debounceMs == 2500

minIntervalMs == 1000

RECURSIVE GCD(_, _)
GCD(a, b) == IF b = 0 THEN a ELSE GCD(b, a % b)

\* the clock of the model advances in the largest step dividing both waits
TimeStep == GCD(debounceMs, minIntervalMs)

\* hashContent is FNV-1a on 32 bits over the first 500 code units; a hash
\* is kept as its two 16-bit halves <<high, low>>
HalfWord == 2 ^ 16

FnvOffsetHigh == 33052

FnvOffsetLow == 40389

FnvPrime == 16777619

HashedLength == 500

\* the exclusive or of two 16-bit numbers, bit by bit
RECURSIVE xorFrom(_, _, _)
xorFrom(a, b, i) ==
    IF 2 ^ i >= HalfWord THEN 0
    ELSE ((((a \div (2 ^ i)) % 2) + ((b \div (2 ^ i)) % 2)) % 2) * (2 ^ i)
             + xorFrom(a, b, i + 1)

xor(a, b) == xorFrom(a, b, 0)

\* hash ^= code; hash = Math.imul(hash, 16777619)
fnvStep(hash, code) ==
    LET mixed(low) ==
            <<(hash[1] * (FnvPrime % HalfWord) + low * (FnvPrime \div HalfWord)
                 + (low * (FnvPrime % HalfWord)) \div HalfWord) % HalfWord,
              (low * (FnvPrime % HalfWord)) % HalfWord>>
    IN mixed(xor(hash[2], code))

RECURSIVE fnv(_, _, _)
fnv(hash, text, i) ==
    IF i > Len(text) \/ i > HashedLength THEN hash
    ELSE fnv(fnvStep(hash, text[i]), text, i + 1)

hashContent(text) == fnv(<<FnvOffsetHigh, FnvOffsetLow>>, text, 1)

\* TurnWatcher.extractTurn: nothing for a turn without text (and, for an assistant
\* turn, without thinking); the message carries the session it was made in
extractWatchedTurn(turn, index, w) ==
    IF turn.content = <<>> /\ ~(turn.role = "assistant" /\ turn.thinking)
    THEN Null
    ELSE [turnIndex |-> index, role |-> turn.role, content |-> turn.content,
          sessionId |-> w.sessionId, conversationUrl |-> w.conversationUrl]

\* dispatchTurn: the message goes to the background script and the receiver
dispatchTurn(st, msg) == [st EXCEPT !.b.dispatched = Append(@, msg)]

\* captureExistingTurns: every turn on the page is extracted and
\* dispatched, its hash recorded; the count becomes the number of turns
RECURSIVE captureFrom(_, _)
captureFrom(st, i) ==
    IF i > Len(st.b.turns) THEN st
    ELSE LET step(msg) ==
                 IF msg = Null THEN st
                 ELSE dispatchTurn(
                          [st EXCEPT !.w.capturedTurnHashes =
                                         @ \cup {hashContent(msg.content)}],
                          msg)
         IN CHOOSE done \in
                {captureFrom(next, i + 1) :
                    next \in {step(extractWatchedTurn(st.b.turns[i], i - 1, st.w))}} :
                TRUE

captureExistingTurns(st) ==
    [captureFrom(st, 1) EXCEPT !.w.capturedTurnCount = Len(st.b.turns)]

\* watchUrlChanges: one more periodic check with its own currentUrl
watchUrlChanges(st) ==
    [st EXCEPT !.b.urlWatchers = Append(@, st.b.location)]

\* start: nothing when started; a retry timer without a container;
\* otherwise capture what is there, observe the container, watch the URL
start(st) ==
    IF st.w.started THEN st
    ELSE IF st.b.container = 0
    THEN [st EXCEPT !.b.retryTimers = @ + 1]
    ELSE LET watching(captured) ==
                 [watchUrlChanges(captured)
                     EXCEPT !.w.observer = st.b.container, !.w.started = TRUE]
         IN watching(captureExistingTurns(st))

\* stop: the observer is disconnected and the debounce timer cleared
stop(st) ==
    [st EXCEPT !.w.observer = 0, !.w.debounceTimer = FALSE,
               !.w.debounceLeft = 0, !.w.started = FALSE]

\* resetDebounce: the timer is set anew to the whole wait
resetDebounce(st) ==
    [st EXCEPT !.w.debounceTimer = TRUE, !.w.debounceLeft = debounceMs]

\* onMutation: the streaming flag follows the stop button; every branch
\* resets the debounce timer
onMutation(st, streaming) ==
    resetDebounce([st EXCEPT !.w.isStreaming = streaming])

\* onSettle: skipped within minIntervalMs of the last run; the turns past
\* capturedTurnCount are extracted, and dispatched unless their hash is known
RECURSIVE settleFrom(_, _)
settleFrom(st, i) ==
    IF i > Len(st.b.turns) THEN st
    ELSE LET step(msg) ==
                 IF msg = Null THEN st
                 ELSE IF hashContent(msg.content) \in st.w.capturedTurnHashes
                 THEN st
                 ELSE dispatchTurn(
                          [st EXCEPT !.w.capturedTurnHashes =
                                         @ \cup {hashContent(msg.content)}],
                          msg)
         IN CHOOSE done \in
                {settleFrom(next, i + 1) :
                    next \in {step(extractWatchedTurn(st.b.turns[i], i - 1, st.w))}} :
                TRUE

onSettle(st) ==
    IF st.w.sinceExtraction < minIntervalMs THEN st
    ELSE LET run(ran) ==
                 IF ran.b.container = 0 THEN ran
                 ELSE IF Len(ran.b.turns) <= ran.w.capturedTurnCount THEN ran
                 ELSE [settleFrom(ran, ran.w.capturedTurnCount + 1)
                          EXCEPT !.w.capturedTurnCount = Len(ran.b.turns)]
         IN run([st EXCEPT !.w.sinceExtraction = 0])

\* check of the n-th URL watcher: on a changed location the watcher is
\* stopped, its count, hashes and session are reset and a restart is timed
check(st, n) ==
    IF st.b.location = st.b.urlWatchers[n] THEN st
    ELSE LET reset(stopped) ==
                 [stopped EXCEPT !.b.urlWatchers[n] = st.b.location,
                                 !.w.capturedTurnCount = 0,
                                 !.w.capturedTurnHashes = {},
                                 !.w.conversationUrl = st.b.location,
                                 !.w.sessionId = st.b.sessions + 1,
                                 !.b.sessions = @ + 1,
                                 !.b.restartTimers = @ + 1]
         IN reset(stop(st))

\* ------------------------------------------------------------------------
\* The watched page
MaxWatchTurns == 2

MaxCalls == 3

MaxNavigations == 1

WatchTurns ==
    {[role |-> "user", content |-> <<97>>, thinking |-> FALSE],
     [role |-> "user", content |-> <<>>, thinking |-> FALSE],
     [role |-> "assistant", content |-> <<98>>, thinking |-> TRUE]}

Conversations == UNION {[1..n -> WatchTurns] : n \in 0..MaxWatchTurns}

\* new TurnWatcher(): lastExtractionTime = 0 lies further back than
\* minIntervalMs, which is all that onSettle asks of it
NewTurnWatcher ==
    [started |-> FALSE, observer |-> 0, debounceTimer |-> FALSE,
     debounceLeft |-> 0, sinceExtraction |-> minIntervalMs,
     capturedTurnCount |-> 0, capturedTurnHashes |-> {}, sessionId |-> 1,
     conversationUrl |-> 1, isStreaming |-> FALSE]

InitWatch ==
    /\ page = Null
    /\ exportData = Null
    /\ artifact = Null
    /\ status = Idle
    /\ watcher = NewTurnWatcher
    /\ browser = [location |-> 1, container |-> 0, containers |-> 0,
                  turns |-> <<>>, retryTimers |-> 0, restartTimers |-> 0,
                  urlWatchers |-> <<>>, dispatched |-> <<>>, sessions |-> 1,
                  calls |-> 0, calledAt |-> 0, navigations |-> 0,
                  stopped |-> FALSE, stoppedAt |-> 0]
    /\ worker = Null

watched == [w |-> watcher, b |-> browser]

Becomes(st) ==
    /\ watcher' = st.w
    /\ browser' = st.b
    /\ UNCHANGED <<page, exportData, artifact, status, worker>>

\* the page script calls start()
Start ==
    /\ browser.calls < MaxCalls
    /\ \E next \in {start([watched EXCEPT !.b.calls = @ + 1, !.b.stopped = FALSE,
                                             !.b.stoppedAt = 0,
                                             !.b.calledAt = browser.navigations])} : Becomes(next)

\* the page script calls stop()
Stop ==
    /\ browser.calls < MaxCalls
    /\ \E next \in {stop([watched EXCEPT !.b.calls = @ + 1, !.b.stopped = TRUE,
                                            !.b.stoppedAt = Len(browser.dispatched),
                                            !.b.calledAt = browser.navigations])} : Becomes(next)

\* the conversation is rendered: a new container element with its turns
Render ==
    /\ browser.container = 0
    /\ \E turns \in Conversations :
           \E next \in {[watched EXCEPT !.b.container = browser.containers + 1,
                                   !.b.containers = @ + 1,
                                   !.b.turns = turns]} : Becomes(next)

\* a turn is appended to the conversation; the observer, when it observes
\* this container, is told
AppendTurn ==
    /\ browser.container # 0
    /\ Len(browser.turns) < MaxWatchTurns
    /\ \E turn \in WatchTurns, streaming \in BOOLEAN :
           \E appended \in {[watched EXCEPT !.b.turns = Append(@, turn)]} :
               \E next \in {IF watcher.observer = browser.container
                       THEN onMutation(appended, streaming)
                       ELSE appended} : Becomes(next)

\* the observed container changes without a new turn (streamed text)
Mutate ==
    /\ browser.container # 0
    /\ watcher.observer = browser.container
    /\ \E streaming \in BOOLEAN : \E next \in {onMutation(watched, streaming)} : Becomes(next)

\* time passes; a due debounce timer fires before it passes further
Tick ==
    /\ ~(watcher.debounceTimer /\ watcher.debounceLeft = 0)
    /\ \E next \in {[watched EXCEPT
                   !.w.debounceLeft = IF watcher.debounceTimer
                                      THEN @ - TimeStep ELSE @,
                   !.w.sinceExtraction = IF @ + TimeStep > minIntervalMs
                                         THEN minIntervalMs ELSE @ + TimeStep]} : Becomes(next)

\* the debounce timer fires
Settle ==
    /\ watcher.debounceTimer
    /\ watcher.debounceLeft = 0
    /\ \E next \in {onSettle([watched EXCEPT !.w.debounceTimer = FALSE])} : Becomes(next)

\* a container-retry timer of start() fires
RetryFires ==
    /\ browser.retryTimers > 0
    /\ \E next \in {start([watched EXCEPT !.b.retryTimers = @ - 1])} : Becomes(next)

\* a restart timer of a URL check fires
RestartFires ==
    /\ browser.restartTimers > 0
    /\ \E next \in {start([watched EXCEPT !.b.restartTimers = @ - 1])} : Becomes(next)

\* a URL watcher runs its check
UrlCheck ==
    \E n \in 1..Len(browser.urlWatchers) : \E next \in {check(watched, n)} : Becomes(next)

\* the page moves to another conversation: the container is replaced, or
\* kept with the turns of the new conversation in it
Navigate ==
    /\ browser.navigations < MaxNavigations
    /\ \/ \E next \in {[watched EXCEPT !.b.location = @ + 1, !.b.navigations = @ + 1,
                                   !.b.container = 0, !.b.turns = <<>>]} : Becomes(next)
       \/ /\ browser.container # 0
          /\ \E turns \in Conversations :
                 \E moved \in {[watched EXCEPT !.b.location = @ + 1,
                                                !.b.navigations = @ + 1,
                                                !.b.turns = turns]} :
                     \E next \in {IF watcher.observer = browser.container
                             THEN onMutation(moved, FALSE)
                             ELSE moved} : Becomes(next)

NextWatch ==
    \/ Start \/ Stop \/ Render \/ AppendTurn \/ Mutate \/ Tick \/ Settle
    \/ RetryFires \/ RestartFires \/ UrlCheck \/ Navigate

SpecWatch == InitWatch /\ [][NextWatch]_vars

\* C24: within one conversation session (one session id) every turn of the
\* conversation is dispatched at most once, whether by a settle, by the
\* capture of existing turns, or after stop() followed by start().
C24_DispatchedAtMostOnce ==
    \A i, j \in 1..Len(browser.dispatched) :
        (/\ i # j
         /\ browser.dispatched[i].sessionId = browser.dispatched[j].sessionId)
            => browser.dispatched[i].turnIndex # browser.dispatched[j].turnIndex

\* One conversation, watched without a stop: the timers of the page run,
\* so time passes and a due debounce timer fires
NextWatchFair ==
    Start \/ Render \/ AppendTurn \/ Mutate \/ Tick \/ Settle \/ RetryFires

SpecWatchFair ==
    InitWatch /\ [][NextWatchFair]_vars /\ WF_vars(Tick) /\ WF_vars(Settle)

watching ==
    /\ watcher.started
    /\ browser.container # 0
    /\ watcher.observer = browser.container

dispatchedTurn(k) ==
    \E n \in 1..Len(browser.dispatched) :
        /\ browser.dispatched[n].sessionId = watcher.sessionId
        /\ browser.dispatched[n].turnIndex = k - 1

\* the k-th turn of the watched conversation has text to capture and was
\* not dispatched in this session
awaited(k) ==
    /\ watching
    /\ k <= Len(browser.turns)
    /\ extractWatchedTurn(browser.turns[k], k - 1, watcher) # Null
    /\ ~dispatchedTurn(k)

\* C25: while the watcher is watching, every turn of the conversation that
\* has something to capture is eventually dispatched, unless the watching
\* ends or the DOM does not stay quiet (a debounce timer is pending again):
\* no turn stays skipped for good.
C25_EveryTurnDispatched ==
    \A k \in 1..MaxWatchTurns :
        awaited(k) ~> (~awaited(k) \/ watcher.debounceTimer)

\* the dispatches made for the conversation the page shows now
ofThisConversation(n) ==
    browser.dispatched[n].conversationUrl = browser.location

\* C26: after one navigation to another conversation, with no call of the
\* page script since, the turns of the new conversation are dispatched
\* under one session id and each of them once.
C26_OneRestartPerNavigation ==
    (browser.navigations = 1 /\ browser.calledAt < browser.navigations) =>
        \A i, j \in 1..Len(browser.dispatched) :
            (i # j /\ ofThisConversation(i) /\ ofThisConversation(j)) =>
                /\ browser.dispatched[i].sessionId = browser.dispatched[j].sessionId
                /\ browser.dispatched[i].turnIndex # browser.dispatched[j].turnIndex

\* C27: after the page script's stop(), and until its next start(), the
\* watcher is not started, observes nothing, has no debounce timer pending
\* and dispatches nothing.
C27_StoppedStaysStopped ==
    browser.stopped =>
        /\ ~watcher.started
        /\ watcher.observer = 0
        /\ ~watcher.debounceTimer
        /\ Len(browser.dispatched) = browser.stoppedAt

\* ------------------------------------------------------------------------
\* exportAllFormats: every format in the order of this.formats
\* ------------------------------------------------------------------------
FormatOrder ==
    <<"pdf", "docx", "markdown", "json", "graph", "memorypack", "csv", "html",
      "txt", "research">>

\* the loop of exportAllFormats from the i-th format on: each format is
\* generated and downloaded; the first one that throws ends the loop
RECURSIVE exportFrom(_, _, _, _)
exportFrom(acc, i, options, libs) ==
    IF i > Len(FormatOrder) THEN acc
    ELSE LET step(generated) ==
                 IF generated.out = Null
                 THEN [acc EXCEPT !.exportData = generated.exportData,
                                  !.failed = FormatOrder[i],
                                  !.error = generated.error]
                 ELSE exportFrom(
                          [acc EXCEPT
                              !.exportData = generated.exportData,
                              !.downloaded = Append(@, FormatOrder[i]),
                              !.last = [format |-> FormatOrder[i], options |-> options,
                                        kind |-> generated.out.kind,
                                        units |-> generated.out.units,
                                        doc |-> generated.out.doc,
                                        graph |-> generated.out.graph,
                                        canonical |-> generated.out.canonical,
                                        research |-> generated.out.research,
                                        filename |-> getFilename(FormatOrder[i], options,
                                                                 generated.exportData)]],
                          i + 1, options, libs)
         IN CHOOSE done \in
                {step(generated) :
                    generated \in {generateFormat(acc.exportData, FormatOrder[i],
                                                  options, libs)}} : TRUE

\* exportAllFormats: analyze when nothing was analyzed yet, normalize, then
\* the loop; one try/catch around all of it reports 'Bulk export failed'
ExportAllFormats(options, libs) ==
    \E source \in {IF exportData = Null THEN analyzed(page, exportData).exportData
                   ELSE exportData} :
    \E checked \in {normalizeAndValidateExportData(source)} :
        IF source = Null \/ checked.threw
        THEN /\ exportData' = IF source = Null THEN source ELSE checked.data
             /\ status' = [op |-> "exportAll", format |-> "",
                           error |-> IF source = Null THEN "No export data available"
                                     ELSE "No messages found to export",
                           downloaded |-> <<>>]
             /\ UNCHANGED <<page, artifact, watcher, browser, worker>>
        ELSE \E done \in {exportFrom([exportData |-> checked.data, downloaded |-> <<>>,
                                      last |-> artifact, failed |-> "",
                                      error |-> NoError],
                                     1, options, libs)} :
             /\ exportData' = done.exportData
             /\ artifact' = done.last
             /\ status' = [op |-> "exportAll", format |-> done.failed,
                           error |-> done.error, downloaded |-> done.downloaded]
             /\ UNCHANGED <<page, watcher, browser, worker>>

BulkLibs == [jspdf : BOOLEAN, docx : BOOLEAN]

BulkOptions == {DefaultOptions, [DefaultOptions EXCEPT !.scope = "single", !.scopeStart = 1]}

InitBulk ==
    /\ page \in Pages
    /\ exportData = Null
    /\ artifact = Null
    /\ status = Idle
    /\ watcher = Null
    /\ browser = Null
    /\ worker = Null

ExportAll ==
    \E options \in BulkOptions, libs \in BulkLibs : ExportAllFormats(options, libs)

NextBulk == AnalyzeConversation \/ ExportAll

SpecBulk == InitBulk /\ [][NextBulk]_vars

\* C28: in the bulk export a format that fails does not keep the formats
\* after it in the list from being generated and downloaded.
C28_FormatsIndependent ==
    (status.op = "exportAll" /\ status.format # "") =>
        \A i \in 1..Len(FormatOrder) :
            FormatOrder[i] # status.format => FormatOrder[i] \in Range(status.downloaded)

\* C29: in a Memory Pack or Research Archive exported with a single or
\* range scope, the research analytics describe the exported messages:
\* conversationFlow.turnCount is the number of exported messages and the
\* thinking-block total is the number of exported blocks.
C29_ResearchDescribesBody ==
    (/\ artifact # Null
     /\ artifact.format \in {"memorypack", "research"}
     /\ artifact.options.scope \in {"single", "range"}) =>
        /\ artifact.research.conversationFlow.turnCount = Len(artifact.doc.messages)
        /\ IF artifact.research.thinkingAnalysis = Null
           THEN Len(artifact.doc.thinkingBlocks) = 0
           ELSE artifact.research.thinkingAnalysis.totalBlocks
                    = Len(artifact.doc.thinkingBlocks)

\* ------------------------------------------------------------------------
\* The background service worker: ActiveTabManager over ServiceWorkerState
\* ------------------------------------------------------------------------
\* A stored value is absent or the set of the recorded tab ids; a call of
\* the manager is [id, op, tab, pc, read, data]: where it waits, what its
\* last storage read returned and what it is saving.  Each storage area
\* answers the operations sent to it in the order they were sent.
Absent == [present |-> FALSE, tabs |-> {}]

Stored(tabs) == [present |-> TRUE, tabs |-> tabs]

without(calls, n) == SubSeq(calls, 1, n - 1) \o SubSeq(calls, n + 1, Len(calls))

\* the call has returned
finished(wk, n) == [wk EXCEPT !.calls = without(@, n)]

\* the n-th call sends an operation to a storage area and waits for it
awaits(wk, n, area, pc) ==
    [wk EXCEPT !.calls[n].pc = pc, !.queue[area] = Append(@, wk.calls[n].id)]

\* persist -> ServiceWorkerState.save: the entries of the cache go to the
\* session storage, and after that to the backup in the local storage
persist(wk, n) ==
    awaits([wk EXCEPT !.session = Stored(wk.cache), !.calls[n].data = wk.cache],
           n, "session", "saveSession")

\* what set, get, delete and size do once initialize() has resolved
resume(wk, n) ==
    CASE wk.calls[n].op = "set" ->
             persist([wk EXCEPT !.cache = @ \cup {wk.calls[n].tab},
                                !.recorded = @ \cup {wk.calls[n].tab}], n)
      [] wk.calls[n].op = "delete" ->
             IF wk.calls[n].tab \in wk.cache
             THEN persist([wk EXCEPT !.cache = @ \ {wk.calls[n].tab},
                                     !.recorded = @ \ {wk.calls[n].tab}], n)
             ELSE finished([wk EXCEPT !.recorded = @ \ {wk.calls[n].tab}], n)
      [] wk.calls[n].op = "get" ->
             finished([wk EXCEPT !.got = [tab |-> wk.calls[n].tab,
                                          found |-> wk.calls[n].tab \in wk.cache,
                                          recorded |-> wk.calls[n].tab \in wk.recorded]],
                      n)
      [] OTHER -> finished(wk, n)

\* initialize after restore() returned: a saved array replaces the cache
initialized(wk, n, saved) ==
    resume([wk EXCEPT !.cache = IF saved.present THEN saved.tabs ELSE @,
                      !.initialized = TRUE], n)

\* a call begins: initialize() returns at once when initialized, otherwise
\* it asks the session storage
begin(wk, op, tab) ==
    LET entered(called) ==
            IF wk.initialized THEN resume(called, Len(called.calls))
            ELSE awaits([called EXCEPT !.calls[Len(called.calls)].read = wk.session],
                        Len(called.calls), "session", "sessionGet")
    IN entered([wk EXCEPT !.calls = Append(@, [id |-> wk.events + 1, op |-> op,
                                               tab |-> tab, pc |-> "begin",
                                               read |-> Absent, data |-> {}]),
                          !.events = @ + 1])

\* the storage operation the n-th call waits for completes
reply(wk, n) ==
    CASE wk.calls[n].pc = "sessionGet" ->
             IF wk.calls[n].read.present
             THEN initialized(wk, n, wk.calls[n].read)
             ELSE awaits([wk EXCEPT !.calls[n].read = wk.local], n, "local", "localGet")
      [] wk.calls[n].pc = "localGet" ->
             IF wk.calls[n].read.present
             THEN awaits([wk EXCEPT !.session = wk.calls[n].read], n, "session", "resave")
             ELSE initialized(wk, n, Absent)
      [] wk.calls[n].pc = "resave" -> initialized(wk, n, wk.calls[n].read)
      [] wk.calls[n].pc = "saveSession" ->
             awaits([wk EXCEPT !.local = Stored(wk.calls[n].data)], n, "local", "saveLocal")
      [] OTHER -> finished(wk, n)

\* ------------------------------------------------------------------------
MaxTabEvents == 3

MaxRestarts == 1

Tabs == {1, 2}

InitWorker ==
    /\ page = Null
    /\ exportData = Null
    /\ artifact = Null
    /\ status = Idle
    /\ watcher = Null
    /\ browser = Null
    /\ worker = [cache |-> {}, initialized |-> FALSE, calls |-> <<>>,
                 session |-> Absent, local |-> Absent, recorded |-> {},
                 queue |-> [session |-> <<>>, local |-> <<>>],
                 got |-> [tab |-> 0, found |-> FALSE, recorded |-> FALSE],
                 events |-> 0, restarts |-> 0]

Worker(next) ==
    /\ worker' = next
    /\ UNCHANGED <<page, exportData, artifact, status, watcher, browser>>

\* chrome.tabs.onUpdated: a supported page is recorded, another is dropped
TabUpdated ==
    /\ worker.events < MaxTabEvents
    /\ \E tab \in Tabs, op \in {"set", "delete"} :
           \E next \in {begin(worker, op, tab)} : Worker(next)

\* the get_tab_status message of the popup
GetTabStatus ==
    /\ worker.events < MaxTabEvents
    /\ \E tab \in Tabs : \E next \in {begin(worker, "get", tab)} : Worker(next)

\* a storage operation completes and its call runs on to its next await
StorageReply ==
    \E area \in {"session", "local"} :
        /\ worker.queue[area] # <<>>
        /\ \E n \in 1..Len(worker.calls) :
               /\ worker.calls[n].id = Head(worker.queue[area])
               /\ \E next \in {reply([worker EXCEPT !.queue[area] = Tail(@)], n)} :
                      Worker(next)

\* the browser stops the idle service worker and starts it again: a new
\* manager, the calls in flight are gone, the storage is kept
WorkerRestart ==
    /\ worker.restarts < MaxRestarts
    /\ Worker([worker EXCEPT !.cache = {}, !.initialized = FALSE, !.calls = <<>>,
                             !.queue = [session |-> <<>>, local |-> <<>>],
                             !.restarts = @ + 1])

NextWorker == TabUpdated \/ GetTabStatus \/ StorageReply \/ WorkerRestart

SpecWorker == InitWorker /\ [][NextWorker]_vars

\* C30: a tab recorded through set() and not deleted since is in the
\* persisted state, in the cache of an initialized manager, and found by
\* every get() for it.
C30_RecordedTabsKept ==
    /\ \A tab \in worker.recorded :
           /\ worker.session.present /\ tab \in worker.session.tabs
           /\ worker.initialized => tab \in worker.cache
    /\ worker.got.recorded => worker.got.found

====
